---- MODULE Spec2Model ----
(***************************************************************************)
(* Record codec and record lifecycle of Mopy/bash/brec.py.                 *)
(*                                                                         *)
(* A MelRecord is modelled with a schema (MelSet) made of one descriptor   *)
(* of each of the kinds the lifecycle depends on:                          *)
(*     MelString('EDID','eid'), MelStruct('DATA','I','value'),             *)
(*     MelFid('SCRI','script'), MelFids('SPLO','spells'),                  *)
(*     MelStructA('ITMS','I','items','item')                               *)
(* Bodies are sequences of bytes (0..255); the reader position is the      *)
(* 0-based offset ins.tell() returns.                                      *)
(***************************************************************************)
EXTENDS Integers, Sequences, FiniteSets, TLC

\* ------------------------------------------------------------------ bounds
\* Longest input body, counted in subrecords.
MaxSubs == 3
\* Most field assignments made to one loaded record.
MaxMut == 1
\* Most times a record is written out and read back.
MaxGen == 2

\* -------------------------------------------------------------- constants
\* Largest payload length a plain (tag, u16 size) header can carry.
MaxU16 == 65535
\* Shift of the modIndex part of a short fid.
TwoTo24 == 16777216

\* None of Python, for the attributes that hold a byte string or a list.
None == <<-1>>

\* ------------------------------------------------------------- subrecord tags
EDID == <<69, 68, 73, 68>>
DATA == <<68, 65, 84, 65>>
SCRI == <<83, 67, 82, 73>>
SPLO == <<83, 80, 76, 79>>
ITMS == <<73, 84, 77, 83>>
XXXX == <<88, 88, 88, 88>>
\* A tag no descriptor of the schema registers.
ZZZZ == <<90, 90, 90, 90>>

\* ------------------------------------------------------------- identifiers
\* A fid is short (k = "s": n is the 32-bit value), long (k = "l": m is the
\* master's name, n the object index), or None (k = "none").
ShortFid(n) == [k |-> "s", m |-> "", n |-> n]
LongFid(m, n) == [k |-> "l", m |-> m, n |-> n]
NoFid == [k |-> "none", m |-> "", n |-> 0]
\* What a mapper call that raises returns in the model.
Raised == [k |-> "raised", m |-> "", n |-> 0]

genFid(modIndex, objectIndex) == objectIndex + modIndex * TwoTo24
getModIndex(fid) == fid \div TwoTo24
getObjectIndex(fid) == fid % TwoTo24

IsLong(f) == f.k = "l"
IsShort(f) == f.k = "s"

\* ---------------------------------------------------------------- struct
\* struct_pack('H', n) and struct_pack('I', n), little-endian.
PackU16(n) == <<n % 256, (n \div 256) % 256>>
PackU32(n) == <<n % 256, (n \div 256) % 256, (n \div 65536) % 256, (n \div TwoTo24) % 256>>
\* struct_pack('I', n) raises struct.error outside 0 .. 2^32-1, that is unless
\* n is not negative and its fourth byte is a byte.
FitsU32(n) == n >= 0 /\ n \div TwoTo24 < 256

\* The bytes b[p+1 .. p+n] of a 0-based position p.
Slice(b, p, n) == SubSeq(b, p + 1, p + n)
UnpackU16(b, p) == b[p + 1] + 256 * b[p + 2]
UnpackU32(b, p) == b[p + 1] + 256 * b[p + 2] + 65536 * b[p + 3] + TwoTo24 * b[p + 4]

\* bolt.cstrip: the bytes before the first zero byte.
RECURSIVE cstrip(_)
cstrip(s) ==
    IF s = <<>> \/ Head(s) = 0 THEN <<>>
    ELSE <<Head(s)>> \o cstrip(Tail(s))

\* ================================================================ ModWriter
\* The 6-byte subrecord header struct_pack('=4sH', sub_rec_type, n).
SubHeader(sub_rec_type, n) == sub_rec_type \o PackU16(n)
\* The escape subrecord struct_pack('=4sHI', 'XXXX', 4, n).
EscapeHeader(n) == XXXX \o PackU16(4) \o PackU32(n)

\* ModWriter.packSub: the bytes it writes.  packs is FALSE when the call form
\* packSub(type, format, *values) is used and struct_pack(format, *values)
\* raises: the except clause prints the error and returns, nothing written.
packSub_below(sub_rec_type, data, packs) ==
    IF data = None THEN <<>>
    ELSE IF ~packs THEN <<>>
    ELSE IF Len(data) < MaxU16
         THEN SubHeader(sub_rec_type, Len(data)) \o data
         ELSE EscapeHeader(Len(data)) \o SubHeader(sub_rec_type, 0) \o data
packSub(sub_rec_type, data, packs) ==
    IF data = None THEN <<>>
    ELSE IF ~packs THEN <<>>
    ELSE IF Len(data) <= MaxU16
         THEN SubHeader(sub_rec_type, Len(data)) \o data
         ELSE EscapeHeader(Len(data)) \o SubHeader(sub_rec_type, 0) \o data

\* ModWriter.packSub0: header plus zero-terminated string.
packSub0(sub_rec_type, data) ==
    IF data = None THEN <<>>
    ELSE LET lenData == Len(data) + 1
         IN  IF lenData < MaxU16
             THEN SubHeader(sub_rec_type, lenData) \o data \o <<0>>
             ELSE EscapeHeader(lenData) \o SubHeader(sub_rec_type, 0) \o data \o <<0>>

\* ModWriter.packRef: [ok, out]; struct_pack('=4sHI', type, 4, fid) raises
\* struct.error when fid is not an integer of 32 bits (a long fid is a tuple).
packRef(sub_rec_type, fid) ==
    IF fid = NoFid THEN [ok |-> TRUE, out |-> <<>>]
    ELSE IF IsShort(fid) /\ FitsU32(fid.n)
         THEN [ok |-> TRUE, out |-> SubHeader(sub_rec_type, 4) \o PackU32(fid.n)]
         ELSE [ok |-> FALSE, out |-> <<>>]

\* ModWriter.write_string with max_size = 0 (MelString's default maxSize):
\* the string is encoded (one byte per character of the plugin encoding)
\* and handed to packSub0.
write_string(sub_type, string_val) == packSub0(sub_type, string_val)

\* encode(string, firstEncoding=...) of one character and of a string, for an
\* encoding with characters of one, two and three bytes (UTF-8).
EncodeChar(c) ==
    IF c < 128 THEN <<c>>
    ELSE IF c < 2048 THEN <<192 + (c \div 64), 128 + (c % 64)>>
    ELSE <<224 + (c \div 4096), 128 + ((c \div 64) % 64), 128 + (c % 64)>>
RECURSIVE Encode(_)
Encode(string) ==
    IF string = <<>> THEN <<>> ELSE EncodeChar(Head(string)) \o Encode(Tail(string))

\* string[:stop] of Python: a negative stop counts from the end.
PySlice(string, stop) ==
    IF stop >= 0 THEN SubSeq(string, 1, IF stop < Len(string) THEN stop ELSE Len(string))
    ELSE SubSeq(string, 1, IF Len(string) + stop > 0 THEN Len(string) + stop ELSE 0)

\* The while loop of write_string: i after it, having started at i with total
\* bytes counted.
RECURSIVE TruncateLoop(_, _, _, _)
TruncateLoop(string_val, extra_encoded, total, i) ==
    IF total < extra_encoded
    THEN TruncateLoop(string_val, extra_encoded,
                      total + Len(EncodeChar(string_val[Len(string_val) + 1 + i])), i - 1)
    ELSE i

\* ModWriter.write_string with max_size > 0, for a string that rstrip and
\* winNewLines leave as it is.
write_string_max(sub_type, string_val, max_size) ==
    LET truncated_size == IF max_size < Len(string_val) THEN max_size ELSE Len(string_val)
        test == Encode(string_val)
        extra_encoded == Len(test) - max_size
    IN  IF extra_encoded > 0
        THEN LET i == TruncateLoop(string_val, extra_encoded, 0, -1)
             IN  packSub0(sub_type, Encode(PySlice(string_val, truncated_size + i + 1)))
        ELSE packSub0(sub_type, test)

\* ====================================================== descriptors: dumpData
\* Each returns [ok, out]: ok is FALSE when dumpData raises.
MelString_dumpData(record) ==
    [ok |-> TRUE,
     out |-> IF record.eid # None THEN write_string(EDID, record.eid) ELSE <<>>]

\* MelStruct('DATA', 'I', 'value').dumpData
MelStruct_dumpData(record) ==
    [ok |-> TRUE,
     out |-> packSub(DATA, PackU32(record.value), FitsU32(record.value))]

MelFid_dumpData(record) == packRef(SCRI, record.script)

RECURSIVE PackRefs(_, _)
PackRefs(sub_rec_type, fids) ==
    IF fids = <<>> THEN [ok |-> TRUE, out |-> <<>>]
    ELSE LET h == packRef(sub_rec_type, Head(fids))
             t == PackRefs(sub_rec_type, Tail(fids))
         IN  [ok |-> h.ok /\ t.ok, out |-> h.out \o t.out]

MelFids_dumpData(record) == PackRefs(SPLO, record.spells)

RECURSIVE PackItems(_)
PackItems(items) ==
    IF items = <<>> THEN [ok |-> TRUE, out |-> <<>>]
    ELSE LET t == PackItems(Tail(items))
         IN  [ok |-> FitsU32(Head(items)) /\ t.ok,
              out |-> PackU32(Head(items)) \o t.out]

\* MelStructA('ITMS', 'I', 'items', 'item').dumpData
MelStructA_dumpData(record) ==
    IF record.items # None
    THEN LET d == PackItems(record.items)
         IN  [ok |-> d.ok, out |-> IF d.ok THEN packSub(ITMS, d.out, TRUE) ELSE <<>>]
    ELSE [ok |-> TRUE, out |-> <<>>]

\* MelSet.dumpData: the descriptors in the order of melSet.elements; the
\* first one that raises ends the pass with the exception re-raised.
MelSet_dumpData(record) ==
    LET parts == <<MelString_dumpData(record), MelStruct_dumpData(record),
                   MelFid_dumpData(record), MelFids_dumpData(record),
                   MelStructA_dumpData(record)>>
    IN  [ok |-> \A i \in 1..Len(parts) : parts[i].ok,
         out |-> parts[1].out \o parts[2].out \o parts[3].out
                 \o parts[4].out \o parts[5].out]

\* ================================================================ ModReader
\* ins is the byte sequence of the stream, ins.size its length and pos the
\* value of ins.tell().  ModReader.read and ModReader.unpack refuse to go
\* past ins.size.
CanRead(ins, pos, size) == pos + size <= Len(ins)

\* ModReader.unpackSubHeader from position pos: [ok, type, size, pos].  After an
\* 'XXXX' subrecord the u32 it carries is the size and the u16 of the next
\* header is thrown away.
RECURSIVE SubHeaderLoop(_, _, _, _)
SubHeaderLoop(ins, pos, rec_type, size) ==
    IF rec_type # XXXX THEN [ok |-> TRUE, type |-> rec_type, size |-> size, pos |-> pos]
    ELSE IF ~CanRead(ins, pos, 4) THEN [ok |-> FALSE, type |-> rec_type, size |-> size, pos |-> pos]
    ELSE IF ~CanRead(ins, pos + 4, 6)
         THEN [ok |-> FALSE, type |-> rec_type, size |-> UnpackU32(ins, pos), pos |-> pos + 4]
         ELSE SubHeaderLoop(ins, pos + 10, Slice(ins, pos + 4, 4), UnpackU32(ins, pos))

unpackSubHeader_u16(ins, pos) ==
    IF ~CanRead(ins, pos, 6) THEN [ok |-> FALSE, type |-> <<>>, size |-> 0, pos |-> pos]
    ELSE LET first == SubHeaderLoop(ins, pos + 6, Slice(ins, pos, 4), UnpackU16(ins, pos + 4))
         IN  IF first.ok /\ Slice(ins, pos, 4) = XXXX
             THEN [first EXCEPT !.size = UnpackU16(ins, first.pos - 2)]
             ELSE first
unpackSubHeader(ins, pos) ==
    IF ~CanRead(ins, pos, 6) THEN [ok |-> FALSE, type |-> <<>>, size |-> 0, pos |-> pos]
    ELSE SubHeaderLoop(ins, pos + 6, Slice(ins, pos, 4), UnpackU16(ins, pos + 4))

\* struct.calcsize of the formats the reader is called with.
calcsize(format) ==
    CASE format = "I" -> 4
      [] format = "H" -> 2
      [] format = "4sH" -> 6

\* ModReader.read(size) from position pos: [ok, pos].
ModReader_read(ins, pos, size) ==
    IF pos + size > Len(ins) THEN [ok |-> FALSE, pos |-> pos]
    ELSE [ok |-> TRUE, pos |-> pos + size]

\* ModReader.unpack(format, size): the bounds check, then ins.read(size), then
\* struct_unpack, which raises struct.error unless it got calcsize(format)
\* bytes.
ModReader_unpack(ins, pos, format, size) ==
    IF pos + size > Len(ins) THEN [ok |-> FALSE, pos |-> pos]
    ELSE [ok |-> calcsize(format) = size, pos |-> pos + size]

\* ModReader.seek(offset, whence)
SEEK_SET == 0
SEEK_CUR == 1
SEEK_END == 2
NewPos(ins, pos, offset, whence) ==
    IF whence = SEEK_CUR THEN pos + offset
    ELSE IF whence = SEEK_END THEN Len(ins) + offset
    ELSE offset
ModReader_seek_unchecked(ins, pos, offset, whence) ==
    [ok |-> TRUE, pos |-> NewPos(ins, pos, offset, whence)]
ModReader_seek(ins, pos, offset, whence) ==
    LET newPos == NewPos(ins, pos, offset, whence)
    IN  IF newPos < 0 \/ newPos > Len(ins) THEN [ok |-> FALSE, pos |-> pos]
        ELSE [ok |-> TRUE, pos |-> newPos]


\* ====================================================== descriptors: loadData
\* Each returns [ok, record, pos]: ok is FALSE when loadData raises.
Loaded(record, pos) == [ok |-> TRUE, record |-> record, pos |-> pos]
LoadError(record, pos) == [ok |-> FALSE, record |-> record, pos |-> pos]

\* MelString.loadData: ins.readString(size_) strips the terminator.
MelString_loadData(record, ins, pos, size_) ==
    IF ~CanRead(ins, pos, size_) THEN LoadError(record, pos)
    ELSE Loaded([record EXCEPT !.eid = cstrip(Slice(ins, pos, size_))], pos + size_)

\* MelStruct('DATA', 'I', 'value').loadData: formatLen is -1, so size_ bytes
\* are read and struct_unpack('I', ...) raises unless there are 4 of them.
MelStruct_loadData(record, ins, pos, size_) ==
    IF ~CanRead(ins, pos, size_) THEN LoadError(record, pos)
    ELSE IF size_ # 4 THEN LoadError(record, pos + size_)
    ELSE Loaded([record EXCEPT !.value = UnpackU32(ins, pos)], pos + 4)

\* MelFid.loadData: ins.unpackRef() reads 4 bytes whatever size_ is.
MelFid_loadData(record, ins, pos, size_) ==
    IF ~CanRead(ins, pos, 4) THEN LoadError(record, pos)
    ELSE Loaded([record EXCEPT !.script = ShortFid(UnpackU32(ins, pos))], pos + 4)

\* MelFids.loadData: one fid appended per subrecord.
MelFids_loadData(record, ins, pos, size_) ==
    IF ~CanRead(ins, pos, 4) THEN LoadError(record, pos)
    ELSE Loaded([record EXCEPT !.spells = Append(@, ShortFid(UnpackU32(ins, pos)))], pos + 4)

\* The loop of MelStructA.loadData: n items of itemSize = 4 bytes each.
RECURSIVE LoadItems(_, _, _, _)
LoadItems(record, ins, pos, n) ==
    IF n = 0 THEN Loaded(record, pos)
    ELSE IF ~CanRead(ins, pos, 4) THEN LoadError(record, pos)
    ELSE LoadItems([record EXCEPT !.items = Append(@, UnpackU32(ins, pos))],
                   ins, pos + 4, n - 1)

\* MelStructA('ITMS', 'I', 'items', 'item').loadData: an empty subrecord sets
\* the attribute to None; otherwise size_/itemSize items are appended to the
\* list the attribute holds (None has no append: AttributeError).
MelStructA_loadData(record, ins, pos, size_) ==
    IF size_ = 0 THEN Loaded([record EXCEPT !.items = None], pos)
    ELSE IF record.items = None THEN LoadError(record, pos)
    ELSE LoadItems(record, ins, pos, size_ \div 4)

\* MelSet.loaders: the tags that have a descriptor.
loaders == {EDID, DATA, SCRI, SPLO, ITMS}

Dispatch(record, ins, pos, Type, size_) ==
    CASE Type = EDID -> MelString_loadData(record, ins, pos, size_)
      [] Type = DATA -> MelStruct_loadData(record, ins, pos, size_)
      [] Type = SCRI -> MelFid_loadData(record, ins, pos, size_)
      [] Type = SPLO -> MelFids_loadData(record, ins, pos, size_)
      [] Type = ITMS -> MelStructA_loadData(record, ins, pos, size_)
      [] OTHER -> LoadError(record, pos)

\* MelSet.loadData: the decode loop up to endPos.  ins.atEnd raises when the
\* position has passed endPos; a tag without loader raises ModError.
RECURSIVE MelSet_loadData_skipping(_, _, _, _)
RECURSIVE MelSet_loadData(_, _, _, _)
MelSet_loadData_skipping(record, ins, pos, endPos) ==
    IF pos > endPos THEN LoadError(record, pos)
    ELSE IF pos = endPos THEN Loaded(record, pos)
    ELSE LET h == unpackSubHeader(ins, pos)
         IN  IF ~h.ok THEN LoadError(record, h.pos)
             ELSE IF h.type \notin loaders
                  THEN MelSet_loadData_skipping(record, ins, h.pos + h.size, endPos)
             ELSE LET r == Dispatch(record, ins, h.pos, h.type, h.size)
                  IN  IF ~r.ok THEN r
                      ELSE MelSet_loadData_skipping(r.record, ins, r.pos, endPos)
MelSet_loadData(record, ins, pos, endPos) ==
    IF pos > endPos THEN LoadError(record, pos)
    ELSE IF pos = endPos THEN Loaded(record, pos)
    ELSE LET h == unpackSubHeader(ins, pos)
         IN  IF ~h.ok THEN LoadError(record, h.pos)
             ELSE IF h.type \notin loaders THEN LoadError(record, h.pos)
             ELSE LET r == Dispatch(record, ins, h.pos, h.type, h.size)
                  IN  IF ~r.ok THEN r
                      ELSE MelSet_loadData(r.record, ins, r.pos, endPos)

\* ModReader.atEnd(endPos) at position pos of a stream of size bytes:
\* [ok, atEnd]; ok is FALSE when it raises ModError('Exceeded limit of').
\* atEnd that takes a position behind endPos for the end.
ModReader_atEnd_lenient(pos, endPos, size) ==
    IF endPos = -1 THEN [ok |-> TRUE, atEnd |-> pos = size]
    ELSE [ok |-> TRUE, atEnd |-> pos >= endPos]
ModReader_atEnd(pos, endPos, size) ==
    IF endPos = -1 THEN [ok |-> TRUE, atEnd |-> pos = size]
    ELSE IF pos > endPos THEN [ok |-> FALSE, atEnd |-> FALSE]
    ELSE [ok |-> TRUE, atEnd |-> pos = endPos]

\* The body of the loop of MelSet.loadData, once: the subrecord header is
\* read and the subrecord is handed to the loader of its type.
MelSet_loadData_body(record, ins, pos) ==
    LET h == unpackSubHeader(ins, pos)
    IN  IF ~h.ok THEN LoadError(record, h.pos)
        ELSE IF h.type \notin loaders THEN LoadError(record, h.pos)
        ELSE Dispatch(record, ins, h.pos, h.type, h.size)

\* MelSet.initRecord: every descriptor's setDefault.
Defaults ==
    [eid |-> None, value |-> 0, script |-> NoFid, spells |-> <<>>, items |-> <<>>]

\* ================================================= counted lists and groups
\* A second schema, of a record type with magic effects:
\*   MelSet(MelCountedFids('SPLO', 'spells', 'SPCT'),
\*          MelCountedFidList('KWDA', 'keywords', 'KSIZ'),
\*          MelFull0(),
\*          MelGroups('effects', MelStruct('EFID', 'I', 'name'),
\*                    MelStruct('EFIT', 'I', 'magnitude'),
\*                    MelString('FULL', 'full')))
SPCT == <<83, 80, 67, 84>>
KSIZ == <<75, 83, 73, 90>>
KWDA == <<75, 87, 68, 65>>
FULL == <<70, 85, 76, 76>>
EFID == <<69, 70, 73, 68>>
EFIT == <<69, 70, 73, 84>>

\* MelNull.loadData: ins.read(size_), thrown away.
MelNull_loadData(record, ins, pos, size_) ==
    IF ~CanRead(ins, pos, size_) THEN LoadError(record, pos)
    ELSE Loaded(record, pos + size_)

\* MelCountedFids.dumpData: nothing for an empty list, else the counter
\* packSub(counterType, '<I', len(value)) and then MelFids.dumpData.
MelCountedFids_dumpData_counterLast(record) ==
    IF record.spells = <<>> THEN [ok |-> TRUE, out |-> <<>>]
    ELSE LET counted == MelFids_dumpData(record)
         IN  [ok |-> counted.ok,
              out |-> counted.out \o packSub(SPCT, PackU32(Len(record.spells)), TRUE)]
MelCountedFids_dumpData(record) ==
    IF record.spells = <<>> THEN [ok |-> TRUE, out |-> <<>>]
    ELSE LET counted == MelFids_dumpData(record)
         IN  [ok |-> counted.ok,
              out |-> packSub(SPCT, PackU32(Len(record.spells)), TRUE) \o counted.out]

\* MelFidList.loadData: an empty subrecord leaves the attribute alone;
\* otherwise ins.unpack(`size_ / 4` + 'I', size_), which raises after the
\* read unless size_ is a multiple of 4.
MelFidList_loadData(record, ins, pos, size_) ==
    IF size_ = 0 THEN Loaded(record, pos)
    ELSE IF ~CanRead(ins, pos, size_) THEN LoadError(record, pos)
    ELSE IF size_ % 4 # 0 THEN LoadError(record, pos + size_)
    ELSE Loaded([record EXCEPT !.keywords =
                    [i \in 1..(size_ \div 4) |-> ShortFid(UnpackU32(ins, pos + 4 * (i - 1)))]],
                pos + size_)

\* struct_pack(`len(fids)` + 'I', *fids): [ok, out].
RECURSIVE PackFidList(_)
PackFidList(fids) ==
    IF fids = <<>> THEN [ok |-> TRUE, out |-> <<>>]
    ELSE LET t == PackFidList(Tail(fids))
         IN  [ok |-> IsShort(Head(fids)) /\ FitsU32(Head(fids).n) /\ t.ok,
              out |-> PackU32(Head(fids).n) \o t.out]

\* MelFidList.dumpData: one subrecord with all the fids, none for an empty
\* list.  packSub swallows the struct.error of a fid that cannot be packed.
MelFidList_dumpData(record) ==
    IF record.keywords = <<>> THEN [ok |-> TRUE, out |-> <<>>]
    ELSE LET packed == PackFidList(record.keywords)
         IN  [ok |-> TRUE, out |-> packSub(KWDA, packed.out, packed.ok)]

\* MelCountedFidList.dumpData
MelCountedFidList_dumpData(record) ==
    IF record.keywords = <<>> THEN [ok |-> TRUE, out |-> <<>>]
    ELSE LET counted == MelFidList_dumpData(record)
         IN  [ok |-> counted.ok,
              out |-> packSub(KSIZ, PackU32(Len(record.keywords)), TRUE) \o counted.out]

\* MelStruct(subType, 'I', attr).loadData and MelString(subType, attr).loadData
\* on the target a group hands them.
MelStruct_loadInto(target, attr, ins, pos, size_) ==
    IF ~CanRead(ins, pos, size_) THEN LoadError(target, pos)
    ELSE IF size_ # 4 THEN LoadError(target, pos + size_)
    ELSE Loaded([target EXCEPT ![attr] = UnpackU32(ins, pos)], pos + 4)
MelString_loadInto(target, attr, ins, pos, size_) ==
    IF ~CanRead(ins, pos, size_) THEN LoadError(target, pos)
    ELSE Loaded([target EXCEPT ![attr] = cstrip(Slice(ins, pos, size_))], pos + size_)

\* MelGroup.getDefault: a MelObject with every element's default.
EffectDefault == [name |-> 0, magnitude |-> 0, full |-> None]

\* MelGroups.loaders[sub_type].loadData(target, ...)
EffectElement_loadData(target, ins, pos, sub_type, size_) ==
    CASE sub_type = EFID -> MelStruct_loadInto(target, "name", ins, pos, size_)
      [] sub_type = EFIT -> MelStruct_loadInto(target, "magnitude", ins, pos, size_)
      [] sub_type = FULL -> MelString_loadInto(target, "full", ins, pos, size_)

\* MelGroups.loadData: type0 appends a default element, any other type takes
\* the last element, and [-1] of an empty list raises IndexError.
MelGroups_loadData_first(record, ins, pos, sub_type, size_) ==
    LET list == IF sub_type = EFID THEN Append(record.effects, EffectDefault)
                ELSE record.effects
    IN  IF list = <<>> THEN LoadError(record, pos)
        ELSE LET at == IF sub_type = EFID THEN Len(list) ELSE 1
                 r == EffectElement_loadData(list[at], ins, pos, sub_type, size_)
             IN  [ok |-> r.ok, pos |-> r.pos,
                  record |-> [record EXCEPT !.effects = [list EXCEPT ![at] = r.record]]]
MelGroups_loadData(record, ins, pos, sub_type, size_) ==
    LET list == IF sub_type = EFID THEN Append(record.effects, EffectDefault)
                ELSE record.effects
    IN  IF list = <<>> THEN LoadError(record, pos)
        ELSE LET r == EffectElement_loadData(list[Len(list)], ins, pos, sub_type, size_)
             IN  [ok |-> r.ok, pos |-> r.pos,
                  record |-> [record EXCEPT !.effects = [list EXCEPT ![Len(list)] = r.record]]]

\* The dumpData of the three elements of the group, on one target.
Effect_dumpData(target) ==
    packSub(EFID, PackU32(target.name), FitsU32(target.name))
    \o packSub(EFIT, PackU32(target.magnitude), FitsU32(target.magnitude))
    \o (IF target.full # None THEN write_string(FULL, target.full) ELSE <<>>)

\* MelGroups.dumpData: every target in list order.
RECURSIVE MelGroups_dumpData(_)
MelGroups_dumpData(effects) ==
    IF effects = <<>> THEN <<>>
    ELSE Effect_dumpData(Head(effects)) \o MelGroups_dumpData(Tail(effects))

\* MelSet.loaders of this schema: each tag's descriptor.  MelGroups registers
\* after MelFull0 and takes 'FULL' over.
effectLoaders ==
    [t \in {SPLO, SPCT, KWDA, KSIZ, FULL, EFID, EFIT} |->
        CASE t = SPLO -> "MelCountedFids"
          [] t = KWDA -> "MelCountedFidList"
          [] t \in {SPCT, KSIZ} -> "MelNull"
          [] OTHER -> "MelGroups"]

EffectDispatch(loader, record, ins, pos, Type, size_) ==
    CASE loader = "MelCountedFids" -> MelFids_loadData(record, ins, pos, size_)
      [] loader = "MelCountedFidList" -> MelFidList_loadData(record, ins, pos, size_)
      [] loader = "MelNull" -> MelNull_loadData(record, ins, pos, size_)
      [] loader = "MelFull0" -> MelString_loadInto(record, "full", ins, pos, size_)
      [] loader = "MelGroups" -> MelGroups_loadData(record, ins, pos, Type, size_)

\* MelSet.loadData of this schema, full0 being set: [ok, record, pos, handled],
\* handled the descriptor each subrecord was handed to, in order.
RECURSIVE EffectSet_loadData_firstFull(_, _, _, _, _, _)
RECURSIVE EffectSet_loadData(_, _, _, _, _, _)
EffectSet_loadData_firstFull(record, ins, pos, endPos, doFullTest, handled) ==
    IF pos > endPos THEN [ok |-> FALSE, record |-> record, pos |-> pos, handled |-> handled]
    ELSE IF pos = endPos THEN [ok |-> TRUE, record |-> record, pos |-> pos, handled |-> handled]
    ELSE LET h == unpackSubHeader(ins, pos)
         IN  IF ~h.ok \/ h.type \notin DOMAIN effectLoaders
             THEN [ok |-> FALSE, record |-> record, pos |-> h.pos, handled |-> handled]
             ELSE LET loader == IF doFullTest /\ h.type = FULL THEN "MelFull0"
                                ELSE effectLoaders[h.type]
                      r == EffectDispatch(loader, record, ins, h.pos, h.type, h.size)
                  IN  IF ~r.ok
                      THEN [ok |-> FALSE, record |-> r.record, pos |-> r.pos,
                            handled |-> Append(handled, loader)]
                      ELSE EffectSet_loadData_firstFull(r.record, ins, r.pos, endPos,
                                              doFullTest /\ h.type # FULL,
                                              Append(handled, loader))
EffectSet_loadData(record, ins, pos, endPos, doFullTest, handled) ==
    IF pos > endPos THEN [ok |-> FALSE, record |-> record, pos |-> pos, handled |-> handled]
    ELSE IF pos = endPos THEN [ok |-> TRUE, record |-> record, pos |-> pos, handled |-> handled]
    ELSE LET h == unpackSubHeader(ins, pos)
         IN  IF ~h.ok \/ h.type \notin DOMAIN effectLoaders
             THEN [ok |-> FALSE, record |-> record, pos |-> h.pos, handled |-> handled]
             ELSE LET loader == IF doFullTest /\ h.type = FULL THEN "MelFull0"
                                ELSE effectLoaders[h.type]
                      r == EffectDispatch(loader, record, ins, h.pos, h.type, h.size)
                  IN  IF ~r.ok
                      THEN [ok |-> FALSE, record |-> r.record, pos |-> r.pos,
                            handled |-> Append(handled, loader)]
                      ELSE EffectSet_loadData(r.record, ins, r.pos, endPos,
                                              doFullTest /\ h.type # EFID,
                                              Append(handled, loader))

\* MelSet.initRecord of this schema.
EffectDefaults == [spells |-> <<>>, keywords |-> <<>>, full |-> None, effects |-> <<>>]

\* MelSet.dumpData of this schema: [ok, out].
EffectSet_dumpData(record) ==
    LET spells == MelCountedFids_dumpData(record)
        keywords == MelCountedFidList_dumpData(record)
    IN  [ok |-> spells.ok /\ keywords.ok,
         out |-> spells.out \o keywords.out
                 \o (IF record.full # None THEN write_string(FULL, record.full) ELSE <<>>)
                 \o MelGroups_dumpData(record.effects)]

\* ======================================================= reference translator
\* Master lists: the plugin P.esp depends on A.esm; a target file may or may
\* not declare A.esm.
MastersOfSource == <<"A.esm", "P.esp">>
MastersWithA == <<"A.esm", "P.esp">>
MastersWithoutA == <<"P.esp">>

Min(a, b) == IF a < b THEN a ELSE b
IndexOf(masters, name) == CHOOSE i \in 1..Len(masters) : masters[i] = name
HasMaster(masters, name) == \E i \in 1..Len(masters) : masters[i] = name

\* to_long: (masters[min(modIndex, last)], objectIndex); None and an id that
\* already is long are returned as they are.
LongMapper(masters, fid) ==
    IF ~IsShort(fid) THEN fid
    ELSE LongFid(masters[Min(getModIndex(fid.n), Len(masters) - 1) + 1],
                 getObjectIndex(fid.n))

\* to_short: fails when the master is absent from the target's master list.
ShortMapper(masters, fid) ==
    IF ~IsLong(fid) THEN fid
    ELSE IF ~HasMaster(masters, fid.m) THEN Raised
    ELSE ShortFid(genFid(IndexOf(masters, fid.m) - 1, fid.n))

\* A replacer function old_new.get(fid, fid) that exchanges two records.
Swapper(fid) ==
    CASE fid = ShortFid(genFid(0, 1)) -> ShortFid(genFid(1, 1))
      [] fid = ShortFid(genFid(1, 1)) -> ShortFid(genFid(0, 1))
      [] fid = LongFid("A.esm", 1) -> LongFid("P.esp", 1)
      [] fid = LongFid("P.esp", 1) -> LongFid("A.esm", 1)
      [] OTHER -> fid

\* The functions handed to convertFids and mapFids.
Mappers == {"long", "short", "shortNoA", "swap"}
Apply(mapper, fid) ==
    CASE mapper = "long" -> LongMapper(MastersOfSource, fid)
      [] mapper = "short" -> ShortMapper(MastersWithA, fid)
      [] mapper = "shortNoA" -> ShortMapper(MastersWithoutA, fid)
      [] mapper = "updater" -> NoFid
      [] OTHER -> Swapper(fid)

\* ====================================================== descriptors: mapFids
\* Each returns [ok, record, calls]: calls lists the arguments the function
\* was called with, ok is FALSE when one of the calls raised.  With save the
\* results are stored as they come, so those before a raising call stay.
\* mapFids that never stores the result.
MelFid_mapFids_unsaved(record, function, save) ==
    [ok |-> Apply(function, record.script) # Raised,
     record |-> record,
     calls |-> <<record.script>>]

MelFid_mapFids(record, function, save) ==
    LET result == Apply(function, record.script)
    IN  [ok |-> result # Raised,
         record |-> IF save /\ result # Raised
                    THEN [record EXCEPT !.script = result] ELSE record,
         calls |-> <<record.script>>]

\* The loop of MelFids.mapFids over fids[index .. ].
RECURSIVE MapFidList(_, _, _, _)
MapFidList(fids, index, function, save) ==
    IF index > Len(fids) THEN [ok |-> TRUE, fids |-> fids, calls |-> <<>>]
    ELSE LET result == Apply(function, fids[index])
         IN  IF result = Raised
             THEN [ok |-> FALSE, fids |-> fids, calls |-> <<fids[index]>>]
             ELSE LET rest == MapFidList(IF save THEN [fids EXCEPT ![index] = result]
                                         ELSE fids, index + 1, function, save)
                  IN  [ok |-> rest.ok, fids |-> rest.fids,
                       calls |-> <<fids[index]>> \o rest.calls]

MelFids_mapFids(record, function, save) ==
    LET r == MapFidList(record.spells, 1, function, save)
    IN  [ok |-> r.ok, record |-> [record EXCEPT !.spells = r.fids], calls |-> r.calls]

ElementMapFids(element, record, function, save) ==
    IF element = "MelFid" THEN MelFid_mapFids(record, function, save)
    ELSE MelFids_mapFids(record, function, save)

\* MelSet.mapFids: the elements of melSet.formElements, a set, in the order
\* elems in which the set iterates.
RECURSIVE MelSet_mapFids(_, _, _, _)
MelSet_mapFids(record, mapper, save, elems) ==
    IF elems = <<>> THEN [ok |-> TRUE, record |-> record, calls |-> <<>>]
    ELSE LET h == ElementMapFids(Head(elems), record, mapper, save)
         IN  IF ~h.ok THEN h
             ELSE LET t == MelSet_mapFids(h.record, mapper, save, Tail(elems))
                  IN  [ok |-> t.ok, record |-> t.record, calls |-> h.calls \o t.calls]

\* convertFids without its first line: the mapper is applied even when the
\* record already is in the requested representation.
MelSet_convertFids_always(record, mapper, toLong, elems) ==
    LET newFid == Apply(mapper, record.fid)
    IN  IF newFid = Raised
        THEN [ok |-> FALSE, record |-> record, calls |-> <<record.fid>>]
        ELSE LET m == MelSet_mapFids([record EXCEPT !.fid = newFid], mapper, TRUE, elems)
             IN  [ok |-> m.ok,
                  record |-> IF m.ok
                             THEN [m.record EXCEPT !.longFids = toLong, !.changed = TRUE]
                             ELSE m.record,
                  calls |-> <<record.fid>> \o m.calls]

\* convertFids that sets the flag before it maps: a mapper that raises leaves
\* the flag flipped.
MelSet_convertFids_flagFirst(record, mapper, toLong, elems) ==
    IF record.longFids = toLong THEN [ok |-> TRUE, record |-> record, calls |-> <<>>]
    ELSE LET newFid == Apply(mapper, record.fid)
             flagged == [record EXCEPT !.longFids = toLong]
         IN  IF newFid = Raised
             THEN [ok |-> FALSE, record |-> flagged, calls |-> <<record.fid>>]
             ELSE LET m == MelSet_mapFids([flagged EXCEPT !.fid = newFid], mapper, TRUE, elems)
                  IN  [ok |-> m.ok,
                       record |-> IF m.ok THEN [m.record EXCEPT !.changed = TRUE]
                                  ELSE m.record,
                       calls |-> <<record.fid>> \o m.calls]

\* MelSet.convertFids
MelSet_convertFids(record, mapper, toLong, elems) ==
    IF record.longFids = toLong THEN [ok |-> TRUE, record |-> record, calls |-> <<>>]
    ELSE LET newFid == Apply(mapper, record.fid)
         IN  IF newFid = Raised
             THEN [ok |-> FALSE, record |-> record, calls |-> <<record.fid>>]
             ELSE LET m == MelSet_mapFids([record EXCEPT !.fid = newFid], mapper, TRUE, elems)
                  IN  [ok |-> m.ok,
                       record |-> IF m.ok
                                  THEN [m.record EXCEPT !.longFids = toLong, !.changed = TRUE]
                                  ELSE m.record,
                       calls |-> <<record.fid>> \o m.calls]

\* updateMasters without its first line: a record in short form is walked
\* like one in long form.
MelSet_updateMasters_unchecked(record, elems) ==
    LET m == MelSet_mapFids(record, "updater", FALSE, elems)
    IN  [ok |-> m.ok, record |-> m.record, calls |-> <<record.fid>> \o m.calls]

\* MelSet.updateMasters: updater adds its argument to masters and returns
\* None; calls lists what it was given, which is what masters gains.
MelSet_updateMasters(record, elems) ==
    IF ~record.longFids THEN [ok |-> FALSE, record |-> record, calls |-> <<>>]
    ELSE LET m == MelSet_mapFids(record, "updater", FALSE, elems)
         IN  [ok |-> m.ok, record |-> m.record, calls |-> <<record.fid>> \o m.calls]

\* ================================================================= MreRecord
\* getSize without the check of longFids.
MreRecord_getSize_unchecked(record) ==
    IF ~record.changed THEN [ok |-> TRUE, record |-> record, size |-> record.size]
    ELSE LET d == MelSet_dumpData(record)
         IN  IF ~d.ok THEN [ok |-> FALSE, record |-> record, size |-> 0]
             ELSE [ok |-> TRUE,
                   record |-> [record EXCEPT !.data = d.out, !.size = Len(d.out),
                                             !.changed = FALSE],
                   size |-> Len(d.out)]

\* getSize that packs but keeps the size of the bytes it replaced.
MreRecord_getSize_staleSize(record) ==
    IF ~record.changed THEN [ok |-> TRUE, record |-> record, size |-> record.size]
    ELSE IF record.longFids THEN [ok |-> FALSE, record |-> record, size |-> 0]
    ELSE LET d == MelSet_dumpData(record)
         IN  IF ~d.ok THEN [ok |-> FALSE, record |-> record, size |-> 0]
             ELSE [ok |-> TRUE,
                   record |-> [record EXCEPT !.data = d.out, !.changed = FALSE],
                   size |-> record.size]

\* MreRecord.getSize: [ok, record, size].
MreRecord_getSize(record) ==
    IF ~record.changed THEN [ok |-> TRUE, record |-> record, size |-> record.size]
    ELSE IF record.longFids THEN [ok |-> FALSE, record |-> record, size |-> 0]
    ELSE LET d == MelSet_dumpData(record)
         IN  IF ~d.ok THEN [ok |-> FALSE, record |-> record, size |-> 0]
             ELSE [ok |-> TRUE,
                   record |-> [record EXCEPT !.data = d.out, !.size = Len(d.out),
                                             !.changed = FALSE],
                   size |-> Len(d.out)]

\* The slots of a record that hold fields of the schema.
FieldsOf(record) ==
    [eid |-> record.eid, value |-> record.value, script |-> record.script,
     spells |-> record.spells, items |-> record.items]

\* MelRecord.__init__(header, ins, do_unpack=True) on the stream body, with
\* header.size = len(body) and header.fid = fid: [ok, record].
NewRecord(fid, body) ==
    LET r == MelSet_loadData(Defaults, body, 0, Len(body))
    IN  [ok |-> r.ok,
         record |-> [fid |-> fid, longFids |-> FALSE, changed |-> FALSE,
                     data |-> body, size |-> Len(body),
                     eid |-> r.record.eid, value |-> r.record.value,
                     script |-> r.record.script, spells |-> r.record.spells,
                     items |-> r.record.items]]

\* ============================================================== RecordHeader
\* Record and group signatures.
TES4 == <<84, 69, 83, 52>>
GRUP == <<71, 82, 85, 80>>
GMST == <<71, 77, 83, 84>>
KYWD == <<75, 89, 87, 68>>
REFR == <<82, 69, 70, 82>>

\* The class attributes of RecordHeader as a game's init leaves them: the
\* first top types and record types of Fallout4VR, its form version, and the
\* 24-byte layout '=4sIIIII' of the class body.
Fallout4VR ==
    [rec_header_size |-> 24, plugin_form_version |-> 131,
     topTypes |-> {GMST, KYWD}, recordTypes |-> {GMST, KYWD, GRUP, TES4, REFR}]
\* The 20-byte layout '=4sIIII' (Oblivion), which has no trailing field and
\* form version 0.
Oblivion ==
    [rec_header_size |-> 20, plugin_form_version |-> 0,
     topTypes |-> {GMST, KYWD}, recordTypes |-> {GMST, KYWD, GRUP, TES4, REFR}]
Games == {Fallout4VR, Oblivion}

\* The label of a group header: a 4-byte string, an integer or a tuple.
StrLabel(tag) == [k |-> "str", v |-> tag]
IntLabel(n) == [k |-> "int", v |-> <<n>>]
TupleLabel(a, b) == [k |-> "tuple", v |-> <<a, b>>]

\* RecordHeader.__init__(recType, size, arg1, arg2, arg3, arg4): arg1..arg3
\* are label, groupType, stamp of a GRUP and flags1, fid, flags2 of a record.
RecordHeader_init(recType, size, arg1, arg2, arg3, arg4) ==
    [recType |-> recType, size |-> size, arg1 |-> arg1, arg2 |-> arg2,
     arg3 |-> arg3, extra |-> arg4]
\* No header object, and no bytes packed yet.
NoObject == [recType |-> <<>>, size |-> 0, arg1 |-> IntLabel(0), arg2 |-> 0,
             arg3 |-> 0, extra |-> 0]
NoHeader == [obj |-> NoObject, out |-> <<>>]

\* unpack that takes the label of every top group as its type, known or not.
RecordHeader_unpack_anyTop(g, ins, at) ==
    IF ~CanRead(ins, at, g.rec_header_size)
    THEN [ok |-> FALSE, obj |-> NoObject, pos |-> at]
    ELSE LET rec_type == Slice(ins, at, 4)
             uint1 == UnpackU32(ins, at + 12)
             uint3 == IF g.rec_header_size = 24 THEN UnpackU32(ins, at + 20) ELSE 0
             label == IF rec_type = GRUP /\ uint1 = 0 THEN StrLabel(Slice(ins, at + 8, 4))
                      ELSE IntLabel(UnpackU32(ins, at + 8))
         IN  IF rec_type \notin g.recordTypes
             THEN [ok |-> FALSE, obj |-> NoObject, pos |-> at + g.rec_header_size]
             ELSE [ok |-> TRUE, pos |-> at + g.rec_header_size,
                   obj |-> RecordHeader_init(rec_type, UnpackU32(ins, at + 4), label,
                                             uint1, UnpackU32(ins, at + 16), uint3)]

\* RecordHeader.unpack(ins) at position pos: [ok, obj, pos].  ins.unpack
\* refuses to read past the end; the header is then read whole, so a bad type
\* is found with the cursor behind the header.
RecordHeader_unpack(g, ins, at) ==
    IF ~CanRead(ins, at, g.rec_header_size)
    THEN [ok |-> FALSE, obj |-> NoObject, pos |-> at]
    ELSE LET rec_type == Slice(ins, at, 4)
             size == UnpackU32(ins, at + 4)
             uint0 == UnpackU32(ins, at + 8)
             uint1 == UnpackU32(ins, at + 12)
             uint2 == UnpackU32(ins, at + 16)
             uint3 == IF g.rec_header_size = 24 THEN UnpackU32(ins, at + 20) ELSE 0
             str0 == Slice(ins, at + 8, 4)
             after == at + g.rec_header_size
         IN  IF rec_type \notin g.recordTypes
             THEN [ok |-> FALSE, obj |-> NoObject, pos |-> after]
             ELSE IF rec_type = GRUP /\ uint1 = 0
             THEN IF str0 \in g.topTypes
                  THEN [ok |-> TRUE, pos |-> after,
                        obj |-> RecordHeader_init(rec_type, size, StrLabel(str0),
                                                  uint1, uint2, uint3)]
                  ELSE [ok |-> FALSE, obj |-> NoObject, pos |-> after]
             ELSE [ok |-> TRUE, pos |-> after,
                   obj |-> RecordHeader_init(rec_type, size, IntLabel(uint0),
                                             uint1, uint2, uint3)]

\* struct_pack('h', n): two's complement of a value of 16 bits.
FitsI16(n) == n >= -32768 /\ n <= 32767
PackI16(n) == PackU16((n + 65536) % 65536)
\* struct_pack('4s', s): s cut or padded with zero bytes to 4 bytes.
Pack4s(str) == SubSeq(str \o <<0, 0, 0, 0>>, 1, 4)

\* A layout that packs the two values of a tuple in the other order.
PackLabel_swapped(label) ==
    CASE label.k = "str" -> [ok |-> TRUE, out |-> Pack4s(label.v)]
      [] label.k = "tuple" ->
            [ok |-> FitsI16(label.v[1]) /\ FitsI16(label.v[2]),
             out |-> PackI16(label.v[2]) \o PackI16(label.v[1])]
      [] OTHER -> [ok |-> FitsU32(label.v[1]), out |-> PackU32(label.v[1])]

\* The label of a GRUP as pack lays it out, by the type of the label:
\* [ok, out]; ok is FALSE when struct_pack raises on the value.
PackLabel(label) ==
    CASE label.k = "str" -> [ok |-> TRUE, out |-> Pack4s(label.v)]
      [] label.k = "tuple" ->
            [ok |-> FitsI16(label.v[1]) /\ FitsI16(label.v[2]),
             out |-> PackI16(label.v[1]) \o PackI16(label.v[2])]
      [] OTHER -> [ok |-> FitsU32(label.v[1]), out |-> PackU32(label.v[1])]

\* extra replaced whole by the form version.
WithFormVersion_overwriting(extra, version) == version

\* The low 16 bits of extra replaced by the form version.
WithFormVersion(extra, version) == version + 65536 * (extra \div 65536)

\* RecordHeader.pack(): [ok, out, obj].  The formats of the layout have a
\* trailing 'I' exactly when the header has 24 bytes, and struct_pack raises
\* unless it gets one value for each field of the format.  Packing a record
\* header stores the form version in self.extra.
RecordHeader_pack(g, h) ==
    LET appended == g.plugin_form_version # 0
        arity_ok == appended <=> (g.rec_header_size = 24)
        extra == IF h.recType = GRUP THEN h.extra
                 ELSE WithFormVersion(h.extra, g.plugin_form_version)
        obj == IF appended THEN [h EXCEPT !.extra = extra] ELSE h
        tail == IF appended THEN PackU32(extra) ELSE <<>>
        middle == IF h.recType = GRUP THEN PackLabel(h.arg1)
                  ELSE [ok |-> FitsU32(h.arg1.v[1]), out |-> PackU32(h.arg1.v[1])]
    IN  IF arity_ok /\ middle.ok
        THEN [ok |-> TRUE, obj |-> obj,
              out |-> Pack4s(h.recType) \o PackU32(h.size) \o middle.out
                      \o PackU32(h.arg2) \o PackU32(h.arg3) \o tail]
        ELSE [ok |-> FALSE, obj |-> obj, out |-> <<>>]

\* ==================================================================== inputs
\* A subrecord as it lies in a file: header and payload.
Sub(tag, payload) == SubHeader(tag, Len(payload)) \o payload

\* The two records the plugin refers to: one of its master, one of its own.
FidOfMaster == genFid(0, 1)
FidOfPlugin == genFid(1, 1)

\* The subrecords input bodies are made of, in the order of the schema; the
\* last one has a tag the schema does not know.
Menu ==
    << [tag |-> EDID, payload |-> <<97, 0>>],
       [tag |-> DATA, payload |-> PackU32(1)],
       [tag |-> SCRI, payload |-> PackU32(FidOfMaster)],
       [tag |-> SPLO, payload |-> PackU32(FidOfPlugin)],
       [tag |-> ITMS, payload |-> <<>>],
       [tag |-> ITMS, payload |-> PackU32(7)],
       [tag |-> ZZZZ, payload |-> <<>>] >>

\* All sequences of at most n indices into Menu.
RECURSIVE SubLists(_)
SubLists(n) ==
    IF n = 0 THEN {<<>>}
    ELSE LET shorter == SubLists(n - 1)
         IN  shorter \cup {Append(l, i) : l \in shorter, i \in 1..Len(Menu)}

RECURSIVE BodyOf(_)
BodyOf(subs) ==
    IF subs = <<>> THEN <<>>
    ELSE Sub(Menu[Head(subs)].tag, Menu[Head(subs)].payload) \o BodyOf(Tail(subs))

\* ================================================== descriptors, one by one
\* MelBase.loadData: the size_ bytes are read and stored as they are.
MelBase_loadData(record, ins, pos, size_) ==
    IF ~CanRead(ins, pos, size_) THEN LoadError(record, pos)
    ELSE Loaded([record EXCEPT !.base = Slice(ins, pos, size_)], pos + size_)

\* MelStruct('DATA', 'I', 'value', dumpExtra='extra').loadData: formatLen is
\* 4, so 4 bytes are unpacked and ins.read(size_ - 4) is stored in extra.
\* ModReader.read lets a negative size pass, and the stream then reads up to
\* its end.
MelStructExtra_loadData(record, ins, pos, size_) ==
    IF ~CanRead(ins, pos, 4) THEN LoadError(record, pos)
    ELSE IF ~CanRead(ins, pos + 4, size_ - 4)
    THEN LoadError([record EXCEPT !.value = UnpackU32(ins, pos)], pos + 4)
    ELSE IF size_ - 4 < 0
    THEN Loaded([record EXCEPT !.value = UnpackU32(ins, pos),
                               !.extra = Slice(ins, pos + 4, Len(ins) - pos - 4)],
                Len(ins))
    ELSE Loaded([record EXCEPT !.value = UnpackU32(ins, pos),
                               !.extra = Slice(ins, pos + 4, size_ - 4)],
                pos + size_)

\* MelTuple('DATA', 'II', 'pair', [0, 0]).loadData: size_ bytes are read and
\* struct_unpack('II', ...) raises unless there are 8 of them.
MelTuple_loadData(record, ins, pos, size_) ==
    IF ~CanRead(ins, pos, size_) THEN LoadError(record, pos)
    ELSE IF size_ # 8 THEN LoadError(record, pos + size_)
    ELSE Loaded([record EXCEPT !.pair = <<UnpackU32(ins, pos), UnpackU32(ins, pos + 4)>>],
                pos + 8)

\* The descriptor kinds.
Kinds == {"MelBase", "MelNull", "MelString", "MelStruct", "MelStructExtra", "MelTuple",
          "MelFid", "MelFids", "MelFidList", "MelStructA"}

\* loadData of the descriptor kind.
KindLoadData(kind, record, ins, pos, size_) ==
    CASE kind = "MelBase" -> MelBase_loadData(record, ins, pos, size_)
      [] kind = "MelNull" -> MelNull_loadData(record, ins, pos, size_)
      [] kind = "MelString" -> MelString_loadData(record, ins, pos, size_)
      [] kind = "MelStruct" -> MelStruct_loadData(record, ins, pos, size_)
      [] kind = "MelStructExtra" -> MelStructExtra_loadData(record, ins, pos, size_)
      [] kind = "MelTuple" -> MelTuple_loadData(record, ins, pos, size_)
      [] kind = "MelFid" -> MelFid_loadData(record, ins, pos, size_)
      [] kind = "MelFids" -> MelFids_loadData(record, ins, pos, size_)
      [] kind = "MelFidList" -> MelFidList_loadData(record, ins, pos, size_)
      [] OTHER -> MelStructA_loadData(record, ins, pos, size_)

\* A record with the slots of all these descriptors, each at its default.
KindDefaults ==
    [base |-> None, eid |-> None, value |-> 0, extra |-> <<>>, pair |-> <<0, 0>>,
     script |-> NoFid, spells |-> <<>>, keywords |-> <<>>, items |-> <<>>]

\* ========================================================= record lifecycle
\* A record before MelRecord.__init__ has run: header known, nothing loaded.
Blank(fid) ==
    [fid |-> fid, longFids |-> FALSE, changed |-> FALSE, data |-> <<>>, size |-> 0,
     eid |-> None, value |-> 0, script |-> NoFid, spells |-> <<>>, items |-> <<>>]

\* MreRecord.flags1_: compressed is bit 18 and deleted is bit 5 of flags1.
Compressed(flags1) == (flags1 \div 262144) % 2 = 1
Deleted(flags1) == (flags1 \div 32) % 2 = 1

\* zlib, by its contract: compress is injective and never the identity,
\* decompress inverts it and raises zlib.error on anything else.  The stream
\* is the 2-byte header and one stored block: its marker, the length of the
\* data, the complement of the length, and the data.
zlib_compress(data) ==
    <<120, 1, 1>> \o PackU16(Len(data)) \o PackU16(65535 - Len(data)) \o data
zlib_decompress(stream) ==
    IF Len(stream) < 7 \/ SubSeq(stream, 1, 3) # <<120, 1, 1>>
    THEN [ok |-> FALSE, out |-> <<>>]
    ELSE IF /\ UnpackU16(stream, 3) = Len(stream) - 7
            /\ UnpackU16(stream, 5) = 65535 - UnpackU16(stream, 3)
         THEN [ok |-> TRUE, out |-> SubSeq(stream, 8, Len(stream))]
         ELSE [ok |-> FALSE, out |-> <<>>]

\* The truth value of self.data: None and '' are false.
HasData(data) == data # None /\ data # <<>>

\* getDecompressed that trusts the prefix.
MreRecord_getDecompressed_unchecked(flags1, data) ==
    IF ~Compressed(flags1) THEN [ok |-> TRUE, out |-> data, error |-> ""]
    ELSE IF data = None THEN [ok |-> FALSE, out |-> <<>>, error |-> "TypeError"]
    ELSE IF Len(data) < 4 THEN [ok |-> FALSE, out |-> <<>>, error |-> "struct.error"]
    ELSE LET decomp == zlib_decompress(SubSeq(data, 5, Len(data)))
         IN  IF ~decomp.ok THEN [ok |-> FALSE, out |-> <<>>, error |-> "zlib.error"]
             ELSE [ok |-> TRUE, out |-> decomp.out, error |-> ""]

\* MreRecord.getDecompressed: [ok, out, error].
MreRecord_getDecompressed(flags1, data) ==
    IF ~Compressed(flags1) THEN [ok |-> TRUE, out |-> data, error |-> ""]
    ELSE IF data = None THEN [ok |-> FALSE, out |-> <<>>, error |-> "TypeError"]
    ELSE IF Len(data) < 4 THEN [ok |-> FALSE, out |-> <<>>, error |-> "struct.error"]
    ELSE LET size == UnpackU32(data, 0)
             decomp == zlib_decompress(SubSeq(data, 5, Len(data)))
         IN  IF ~decomp.ok THEN [ok |-> FALSE, out |-> <<>>, error |-> "zlib.error"]
             ELSE IF Len(decomp.out) # size
             THEN [ok |-> FALSE, out |-> <<>>, error |-> "ModError"]
             ELSE [ok |-> TRUE, out |-> decomp.out, error |-> ""]

\* The end of getSize for a compressed record, r being what it did up to
\* there: the packed bytes are replaced by their u32 length and their
\* compressed form.
WithCompressed(r) ==
    [ok |-> TRUE, size |-> 4 + Len(zlib_compress(r.record.data)),
     record |-> [r.record EXCEPT
                    !.data = PackU32(Len(r.record.data)) \o zlib_compress(r.record.data),
                    !.size = 4 + Len(zlib_compress(r.record.data))]]

\* What getSize returns, r being what it did before the test of the
\* compressed flag and packs telling whether it packed.
Finished(r, packs, flags1) ==
    IF packs /\ r.ok /\ Compressed(flags1) THEN WithCompressed(r) ELSE r

\* MreRecord.getSize of a MelRecord with its flags.
MreRecord_getSizeWithFlags(record, flags1) ==
    Finished(MreRecord_getSize(record), record.changed, flags1)

\* MreRecord.getSize of an instance of MreRecord itself, whose subrecords are
\* None: the default dumpData raises StateError.
MreRecord_getSizeBase(record) ==
    IF ~record.changed THEN [ok |-> TRUE, record |-> record, size |-> record.size]
    ELSE [ok |-> FALSE, record |-> record, size |-> 0]

\* MelRecord.__init__(header, ins, do_unpack=True): [ok, record, error].  The
\* body is read whole; a compressed one is decoded from the reader over
\* getDecompressed(), up to the end of that reader.
MreRecord_load(h, ins) ==
    LET d == MreRecord_getDecompressed(h.arg1.v[1], ins)
    IN  IF ~d.ok THEN [ok |-> FALSE, record |-> Blank(h.arg2), error |-> d.error]
        ELSE LET r == NewRecord(h.arg2, d.out)
             IN  [ok |-> r.ok, error |-> IF r.ok THEN "" ELSE "ModError",
                  record |-> [r.record EXCEPT !.data = ins, !.size = h.size]]

\* MreRecord.setData(data)
MreRecord_setData(record, data) ==
    [record EXCEPT !.data = data, !.size = Len(data), !.changed = FALSE]

\* MreRecord.getBaseCopy(): MreRecord(self.getHeader()) with the data of self.
MreRecord_getBaseCopy(h, record) ==
    [Blank(h.arg2) EXCEPT !.size = h.size, !.data = record.data]

\* The end of getTypeCopy for the copy c.record convertFids returned, or for
\* the exception it raised, which leaves the record as it was.
MarkedCopy(c, record) ==
    [ok |-> c.ok, calls |-> c.calls,
     record |-> IF c.ok THEN [c.record EXCEPT !.changed = TRUE, !.data = None]
                ELSE record]

\* MreRecord.getTypeCopy(mapper) of a MelRecord: a deep copy, converted to
\* long ids when a mapper is given, marked changed and without data.
MreRecord_getTypeCopy(record, mapper, elems) ==
    IF mapper # "" /\ ~record.longFids
    THEN MarkedCopy(MelSet_convertFids(record, mapper, TRUE, elems), record)
    ELSE MarkedCopy([ok |-> TRUE, record |-> record, calls |-> <<>>], record)

\* dump without the check of changed.
MreRecord_dump_unchecked(g, h, record) ==
    IF ~HasData(record.data) /\ ~Deleted(h.arg1.v[1]) /\ record.size > 0
    THEN [ok |-> FALSE, error |-> "StateError", obj |-> h, out |-> <<>>]
    ELSE LET updated == [h EXCEPT !.size = record.size, !.arg2 = record.fid]
         IN  IF ~IsShort(record.fid)
             THEN [ok |-> FALSE, error |-> "struct.error", obj |-> updated, out |-> <<>>]
             ELSE LET packed == RecordHeader_pack(g, [updated EXCEPT !.arg2 = record.fid.n])
                      obj == [packed.obj EXCEPT !.arg2 = record.fid]
                  IN  IF ~packed.ok
                      THEN [ok |-> FALSE, error |-> "struct.error", obj |-> obj, out |-> <<>>]
                      ELSE IF record.size > 0 /\ record.data = None
                      THEN [ok |-> FALSE, error |-> "TypeError", obj |-> obj,
                            out |-> packed.out]
                      ELSE [ok |-> TRUE, error |-> "", obj |-> obj,
                            out |-> packed.out
                                    \o (IF record.size > 0 THEN record.data ELSE <<>>)]

\* MreRecord.dump(out) for the header object h the record holds:
\* [ok, error, obj, out].  The header takes size and fid of the record before
\* it is packed; struct_pack raises on a fid that is a tuple, and
\* out.write(None) raises after the header was written.
MreRecord_dump(g, h, record) ==
    IF record.changed
    THEN [ok |-> FALSE, error |-> "StateError", obj |-> h, out |-> <<>>]
    ELSE IF ~HasData(record.data) /\ ~Deleted(h.arg1.v[1]) /\ record.size > 0
    THEN [ok |-> FALSE, error |-> "StateError", obj |-> h, out |-> <<>>]
    ELSE LET updated == [h EXCEPT !.size = record.size, !.arg2 = record.fid]
         IN  IF ~IsShort(record.fid)
             THEN [ok |-> FALSE, error |-> "struct.error", obj |-> updated, out |-> <<>>]
             ELSE LET packed == RecordHeader_pack(g, [updated EXCEPT !.arg2 = record.fid.n])
                      obj == [packed.obj EXCEPT !.arg2 = record.fid]
                  IN  IF ~packed.ok
                      THEN [ok |-> FALSE, error |-> "struct.error", obj |-> obj, out |-> <<>>]
                      ELSE IF record.size > 0 /\ record.data = None
                      THEN [ok |-> FALSE, error |-> "TypeError", obj |-> obj,
                            out |-> packed.out]
                      ELSE [ok |-> TRUE, error |-> "", obj |-> obj,
                            out |-> packed.out
                                    \o (IF record.size > 0 THEN record.data ELSE <<>>)]

\* MreSubrecord.setData(data): the changed flag stays as it is.
MreSubrecord_setData(sub, data) == [sub EXCEPT !.data = data, !.size = Len(data)]

\* MreSubrecord.dump without the check of changed.
MreSubrecord_dump_unchecked(sub) ==
    IF ~HasData(sub.data) THEN [ok |-> FALSE, out |-> <<>>]
    ELSE [ok |-> TRUE, out |-> packSub(sub.subType, sub.data, TRUE)]

\* MreSubrecord.dump(out): [ok, out].
MreSubrecord_dump(sub) ==
    IF sub.changed \/ ~HasData(sub.data) THEN [ok |-> FALSE, out |-> <<>>]
    ELSE [ok |-> TRUE, out |-> packSub(sub.subType, sub.data, TRUE)]

\* ===================================================================== state
VARIABLES
    phase,          \* "raw": bytes not yet decoded, "decoded", "failed": load raised
    origin,         \* the subrecords (indices into Menu) of the file's record, or
                    \* the type and payload length of each packSub call
    ins,            \* the bytes of the body the record is, or was, loaded from
    record,         \* the slots of the MelRecord
    formElements,   \* melSet.formElements in the order the set iterates
    op,             \* the last call, its arguments, and for a call that takes a
                    \* mapper whether it repeats the call before it, which returned
    result,         \* how it ended ("ok" or "raised"), the size getSize returned,
                    \* whether getSize ran the encode pass to the end, and the
                    \* type unpackSubHeader returned
    calls,          \* the arguments the mapper was called with in that call,
                    \* the descriptor each subrecord of a load was handed to, or
                    \* the numbers a reader call was given
    muts,           \* field assignments since the load
    gen,            \* how many times the record was written out and read back
    pos,            \* ins.tell() of a ModReader that is used call by call
    header,         \* the RecordHeader unpacked last, and what pack returned
    game,           \* the class attributes of RecordHeader the game has set
    ncalls,         \* how many calls the ModReader has served
    dumped,         \* the bytes the last dump wrote to its ModWriter
    subrecord       \* a MreSubrecord: its changed, subType, size and data

vars == <<phase, origin, ins, record, formElements, op, result, calls, muts, gen,
          pos, header, game, ncalls, dumped, subrecord>>
\* The variables of the reader and header operations.
io == <<pos, header, game, ncalls, dumped, subrecord>>

\* MreSubrecord.__init__(type, size) without a stream.
MreSubrecord_init(type, size) ==
    [changed |-> FALSE, subType |-> type, size |-> size, data |-> None]

NoOp == [name |-> "none", mapper |-> "", flag |-> FALSE, attr |-> "", again |-> FALSE]
Call(name, mapper, flag, attr) ==
    [name |-> name, mapper |-> mapper, flag |-> flag, attr |-> attr,
     again |-> /\ mapper # ""
               /\ op.name = name /\ op.mapper = mapper /\ op.flag = flag
               /\ result.status = "ok"]
Returned(size) == [status |-> "ok", size |-> size, packed |-> FALSE, tag |-> <<>>]
Raise == [status |-> "raised", size |-> 0, packed |-> FALSE, tag |-> <<>>]

\* The iteration orders a set of the two identifier descriptors can have.
SetOrders == {<<"MelFid", "MelFids">>, <<"MelFids", "MelFid">>}

InitWith(inputs, orders) ==
    /\ origin \in inputs
    /\ ins = BodyOf(origin)
    /\ phase = "raw"
    /\ record = Blank(ShortFid(FidOfPlugin))
    /\ formElements \in orders
    /\ op = NoOp
    /\ result = Returned(0)
    /\ calls = <<>>
    /\ muts = 0
    /\ gen = 0
    /\ pos = 0
    /\ header = NoHeader
    /\ game = Fallout4VR
    /\ ncalls = 0
    /\ dumped = <<>>
    /\ subrecord = MreSubrecord_init(EDID, 0)

\* ================================================================ operations
\* MelRecord.__init__ / MreRecord.load(ins, do_unpack=True)
Load ==
    /\ phase = "raw"
    /\ LET r == NewRecord(record.fid, ins)
       IN  /\ phase' = IF r.ok THEN "decoded" ELSE "failed"
           /\ record' = IF r.ok THEN r.record ELSE record
           /\ result' = IF r.ok THEN Returned(0) ELSE Raise
    /\ op' = Call("load", "", FALSE, "")
    /\ calls' = <<>>
    /\ UNCHANGED <<origin, ins, formElements, muts, gen>>
    /\ UNCHANGED io

\* The values downstream code assigns to a field.  Identifiers are assigned
\* in the representation the record is in.
FidsNow == IF record.longFids
           THEN {LongFid("A.esm", 1), LongFid("P.esp", 1)}
           ELSE {ShortFid(FidOfMaster), ShortFid(FidOfPlugin)}
ValuesFor(attr) ==
    CASE attr = "eid" -> {None, <<98>>}
      [] attr = "value" -> {2, -1}
      [] attr = "script" -> {NoFid} \cup FidsNow
      [] attr = "spells" -> {<<>>} \cup {<<f>> : f \in FidsNow}
      [] OTHER -> {None, <<>>, <<7>>}

\* An assignment that marks the record changed, as a __setattr__ hook would.
SetAttr_marking(attr, v) ==
    /\ phase = "decoded"
    /\ muts < MaxMut
    /\ record[attr] # v
    /\ record' = [record EXCEPT ![attr] = v, !.changed = TRUE]
    /\ muts' = muts + 1
    /\ op' = Call("setattr", "", FALSE, attr)
    /\ result' = Returned(0)
    /\ calls' = <<>>
    /\ UNCHANGED <<phase, origin, ins, formElements, gen>>
    /\ UNCHANGED io

\* record.attr = v: a plain attribute assignment (MelRecord defines no
\* __setattr__), which touches no other slot.
SetAttr(attr, v) ==
    /\ phase = "decoded"
    /\ muts < MaxMut
    /\ record[attr] # v
    /\ record' = [record EXCEPT ![attr] = v]
    /\ muts' = muts + 1
    /\ op' = Call("setattr", "", FALSE, attr)
    /\ result' = Returned(0)
    /\ calls' = <<>>
    /\ UNCHANGED <<phase, origin, ins, formElements, gen>>
    /\ UNCHANGED io

\* MreRecord.setChanged(value)
SetChanged(value) ==
    /\ phase = "decoded"
    /\ record' = [record EXCEPT !.changed = value]
    /\ op' = Call("setChanged", "", value, "")
    /\ result' = Returned(0)
    /\ calls' = <<>>
    /\ UNCHANGED <<phase, origin, ins, formElements, muts, gen>>
    /\ UNCHANGED io

\* MreRecord.getSize()
GetSize ==
    /\ phase = "decoded"
    /\ LET r == MreRecord_getSize(record)
       IN  /\ record' = r.record
           /\ result' = IF r.ok THEN [Returned(r.size) EXCEPT !.packed = record.changed]
                        ELSE Raise
    /\ op' = Call("getSize", "", FALSE, "")
    /\ calls' = <<>>
    /\ UNCHANGED <<phase, origin, ins, formElements, muts, gen>>
    /\ UNCHANGED io

\* MelRecord.convertFids(mapper, toLong)
ConvertFids(mapper, toLong) ==
    /\ phase = "decoded"
    /\ LET r == MelSet_convertFids(record, mapper, toLong, formElements)
       IN  /\ record' = r.record
           /\ result' = IF r.ok THEN Returned(0) ELSE Raise
           /\ calls' = r.calls
    /\ op' = Call("convertFids", mapper, toLong, "")
    /\ UNCHANGED <<phase, origin, ins, formElements, muts, gen>>
    /\ UNCHANGED io

\* MelRecord.mapFids(mapper, save)
MapFids(mapper, save) ==
    /\ phase = "decoded"
    /\ LET r == MelSet_mapFids(record, mapper, save, formElements)
       IN  /\ record' = r.record
           /\ result' = IF r.ok THEN Returned(0) ELSE Raise
           /\ calls' = r.calls
    /\ op' = Call("mapFids", mapper, save, "")
    /\ UNCHANGED <<phase, origin, ins, formElements, muts, gen>>
    /\ UNCHANGED io

Attrs == {"eid", "value", "script", "spells", "items"}

\* The file is read again after it was written: a new record is built from
\* the bytes getSize packed, which are what dump writes for the record.
Reopen ==
    /\ phase = "decoded"
    /\ gen < MaxGen
    /\ ~record.changed
    /\ op.name = "getSize" /\ result.packed
    /\ ins' = record.data
    /\ record' = Blank(record.fid)
    /\ phase' = "raw"
    /\ gen' = gen + 1
    /\ op' = Call("reopen", "", FALSE, "")
    /\ result' = Returned(0)
    /\ calls' = <<>>
    /\ UNCHANGED <<origin, formElements, muts>>
    /\ UNCHANGED io

\* Slot of a Menu entry in the schema: the index of its descriptor in
\* melSet.elements, 0 for a tag without descriptor.
SlotOf(i) ==
    CASE Menu[i].tag = EDID -> 1
      [] Menu[i].tag = DATA -> 2
      [] Menu[i].tag = SCRI -> 3
      [] Menu[i].tag = SPLO -> 4
      [] Menu[i].tag = ITMS -> 5
      [] OTHER -> 0

\* Subrecords in schema-declared order: known tags, slots ascending, only
\* the repeatable descriptor (MelFids) more than once.
InSchemaOrder(subs) ==
    /\ \A i \in 1..Len(subs) : SlotOf(subs[i]) # 0
    /\ \A i \in 1..Len(subs) - 1 :
          \/ SlotOf(subs[i]) < SlotOf(subs[i + 1])
          \/ SlotOf(subs[i]) = 4 /\ SlotOf(subs[i + 1]) = 4

OrderedInputs == {subs \in SubLists(MaxSubs) : InSchemaOrder(subs)}

\* ------------------------------------------------------------ specifications
\* Lifecycle of a loaded record: field assignments, setChanged, getSize.
Init == InitWith(OrderedInputs, {<<"MelFid", "MelFids">>})

Next ==
    \/ Load
    \/ \E attr \in Attrs : \E v \in ValuesFor(attr) : SetAttr(attr, v)
    \/ \E value \in BOOLEAN : SetChanged(value)
    \/ GetSize

Spec == Init /\ [][Next]_vars

\* Identifier conversion of a loaded record.  The inputs are the ordered ones
\* made of the subrecords that carry identifiers, and of the name.
FidInputs == {subs \in OrderedInputs : \A i \in 1..Len(subs) : SlotOf(subs[i]) \in {1, 3, 4}}

InitFids == InitWith(FidInputs, SetOrders)

NextFids ==
    \/ Load
    \/ \E value \in BOOLEAN : SetChanged(value)
    \/ GetSize
    \/ \E mapper \in Mappers, toLong \in BOOLEAN : ConvertFids(mapper, toLong)
    \/ \E mapper \in Mappers, save \in BOOLEAN : MapFids(mapper, save)

SpecFids == InitFids /\ [][NextFids]_vars

\* Decoding and re-encoding of arbitrary bodies, written out and read back.
InitCodec == InitWith(SubLists(MaxSubs), {<<"MelFid", "MelFids">>})

NextCodec ==
    \/ Load
    \/ SetChanged(TRUE)
    \/ GetSize
    \/ Reopen

SpecCodec == InitCodec /\ [][NextCodec]_vars

\* ------------------------------------------------------- header operations
\* The variables of a loaded record, which the header operations leave alone.
recordVars == <<origin, record, formElements, calls, muts, dumped, subrecord>>

\* Headers as they lie in a file, 20 or 24 bytes by the layout of game g, and
\* the first 10 bytes of each: a file that ends inside the header.
HeaderTags == {TES4, GRUP, GMST, ZZZZ}
HeaderLabels == {UnpackU32(GMST, 0), UnpackU32(REFR, 0), 5}
HeaderExtras == {0, 9 + 65536 * 3}
HeaderBytes(g) ==
    LET whole == {t \o PackU32(size) \o PackU32(uint0) \o PackU32(uint1) \o PackU32(7)
                    \o (IF g.rec_header_size = 24 THEN PackU32(uint3) ELSE <<>>) :
                  t \in HeaderTags, size \in {0, 30}, uint0 \in HeaderLabels,
                  uint1 \in {0, 1, 4}, uint3 \in HeaderExtras}
    IN  whole \cup {SubSeq(b, 1, 10) : b \in whole}

\* The labels code gives to the group headers it builds.
BuiltLabels == {StrLabel(GMST), IntLabel(5), TupleLabel(1, -2), TupleLabel(40000, 0)}

InitHeader ==
    /\ game \in Games
    /\ ins \in HeaderBytes(game)
    /\ pos = 0
    /\ ncalls = 0
    /\ dumped = <<>>
    /\ subrecord = MreSubrecord_init(EDID, 0)
    /\ header = NoHeader
    /\ phase = "raw"
    /\ origin = <<>>
    /\ record = Blank(ShortFid(FidOfPlugin))
    /\ formElements = <<"MelFid", "MelFids">>
    /\ op = NoOp
    /\ result = Returned(0)
    /\ calls = <<>>
    /\ muts = 0
    /\ gen = 0

\* ModReader.unpackRecHeader()
UnpackRecHeader ==
    /\ phase = "raw"
    /\ LET r == RecordHeader_unpack(game, ins, pos)
       IN  /\ phase' = IF r.ok THEN "decoded" ELSE "failed"
           /\ header' = [obj |-> r.obj, out |-> <<>>]
           /\ pos' = r.pos
           /\ result' = IF r.ok THEN Returned(0) ELSE Raise
    /\ op' = Call("unpackRecHeader", "", FALSE, "")
    /\ UNCHANGED <<ins, game, gen, ncalls>>
    /\ UNCHANGED recordVars

\* RecordHeader('GRUP', size, label, groupType, stamp, extra) or
\* RecordHeader(recType, size, flags1, fid, flags2, extra), built by code.
NewHeader(recType, arg1, arg2, arg4) ==
    /\ phase = "raw"
    /\ phase' = "built"
    /\ header' = [obj |-> RecordHeader_init(recType, 30, arg1, arg2, 7, arg4),
                  out |-> <<>>]
    /\ op' = Call("RecordHeader", "", FALSE, "")
    /\ result' = Returned(0)
    /\ UNCHANGED <<ins, pos, game, gen, ncalls>>
    /\ UNCHANGED recordVars

\* RecordHeader.pack()
PackHeader ==
    /\ phase \in {"decoded", "built"}
    /\ gen < MaxGen
    /\ LET r == RecordHeader_pack(game, header.obj)
       IN  /\ header' = [obj |-> r.obj, out |-> r.out]
           /\ result' = IF r.ok THEN Returned(Len(r.out)) ELSE Raise
    /\ gen' = gen + 1
    /\ op' = Call("pack", "", FALSE, "")
    /\ UNCHANGED <<phase, ins, pos, game, ncalls>>
    /\ UNCHANGED recordVars

NextHeader ==
    \/ UnpackRecHeader
    \/ \E arg1 \in BuiltLabels, arg2 \in {0, 1, 4}, arg4 \in HeaderExtras :
          NewHeader(GRUP, arg1, arg2, arg4)
    \/ \E arg4 \in HeaderExtras : NewHeader(GMST, IntLabel(5), 1, arg4)
    \/ PackHeader

SpecHeader == InitHeader /\ [][NextHeader]_vars


\* --------------------------------------------------------- wire operations
\* A ModWriter writes one subrecord behind what the stream holds, and a
\* ModReader placed where the subrecord starts reads its header, then its
\* payload.
WireTags == {EDID, DATA, SCRI, ZZZZ}
WireLens == {0, 1, 2, MaxU16 - 1, MaxU16, MaxU16 + 1, MaxU16 + 2, MaxU16 + 5}
Payload(n) == [i \in 1..n |-> (i * 7) % 256]
\* What the stream holds before: nothing, or a subrecord.
WirePrefixes == {<<>>, Sub(EDID, <<97, 0>>)}

InitWire ==
    /\ ins \in WirePrefixes
    /\ pos = Len(ins)
    /\ origin = <<>>
    /\ phase = "raw"
    /\ game = Fallout4VR
    /\ ncalls = 0
    /\ dumped = <<>>
    /\ subrecord = MreSubrecord_init(EDID, 0)
    /\ header = NoHeader
    /\ record = Blank(ShortFid(FidOfPlugin))
    /\ formElements = <<"MelFid", "MelFids">>
    /\ op = NoOp
    /\ result = Returned(0)
    /\ calls = <<>>
    /\ muts = 0
    /\ gen = 0

wireVars == <<record, formElements, calls, muts, gen, header, game, ncalls, dumped, subrecord>>

\* out.packSub(sub_rec_type, data) and out.packSub(sub_rec_type, format,
\* *values); n is -1 for data None.
PackSub(sub_rec_type, n, packs) ==
    /\ phase = "raw"
    /\ phase' = "written"
    /\ ins' = ins \o packSub(sub_rec_type, IF n < 0 THEN None ELSE Payload(n), packs)
    /\ origin' = Append(origin, [tag |-> sub_rec_type, n |-> n, packs |-> packs])
    /\ op' = Call("packSub", "", FALSE, "")
    /\ result' = Returned(0)
    /\ UNCHANGED pos
    /\ UNCHANGED wireVars

\* ins.unpackSubHeader()
UnpackSubHeader ==
    /\ phase = "written"
    /\ LET r == unpackSubHeader(ins, pos)
       IN  /\ phase' = IF r.ok THEN "header" ELSE "failed"
           /\ pos' = r.pos
           /\ result' = IF r.ok THEN [Returned(r.size) EXCEPT !.tag = r.type] ELSE Raise
    /\ op' = Call("unpackSubHeader", "", FALSE, "")
    /\ UNCHANGED <<ins, origin>>
    /\ UNCHANGED wireVars

\* ins.read(size) with the size unpackSubHeader returned
ReadPayload ==
    /\ phase = "header"
    /\ IF CanRead(ins, pos, result.size)
       THEN /\ phase' = "payload"
            /\ pos' = pos + result.size
            /\ result' = [result EXCEPT !.status = "ok"]
       ELSE /\ phase' = "failed"
            /\ pos' = pos
            /\ result' = Raise
    /\ op' = Call("read", "", FALSE, "")
    /\ UNCHANGED <<ins, origin>>
    /\ UNCHANGED wireVars

NextWire ==
    \/ \E sub_rec_type \in WireTags, n \in WireLens \cup {-1}, packs \in BOOLEAN :
          PackSub(sub_rec_type, n, packs)
    \/ UnpackSubHeader
    \/ ReadPayload

SpecWire == InitWire /\ [][NextWire]_vars

\* out.packSub0(sub_rec_type, data) with a byte string of n bytes; n is -1 for
\* data None.
PackSub0(sub_rec_type, n) ==
    /\ phase = "raw"
    /\ phase' = "written"
    /\ ins' = ins \o packSub0(sub_rec_type, IF n < 0 THEN None ELSE Payload(n))
    /\ origin' = Append(origin, [tag |-> sub_rec_type, n |-> n, packs |-> TRUE])
    /\ op' = Call("packSub0", "", FALSE, "")
    /\ result' = Returned(0)
    /\ UNCHANGED pos
    /\ UNCHANGED wireVars

NextWire0 ==
    \/ \E sub_rec_type \in WireTags, n \in WireLens \cup {-1} : PackSub0(sub_rec_type, n)
    \/ UnpackSubHeader
    \/ ReadPayload

SpecWire0 == InitWire /\ [][NextWire0]_vars

\* --------------------------------------------------------- string operations
\* Strings of at most MaxChars characters of one, two and three bytes, written
\* by a MelString with maxSize set.
MaxChars == 4
Alphabet == {97, 233, 8364}
RECURSIVE Strings(_)
Strings(n) ==
    IF n = 0 THEN {<<>>}
    ELSE LET shorter == Strings(n - 1)
         IN  shorter \cup {Append(string, c) : string \in shorter, c \in Alphabet}
MaxSizes == 1..3

InitString ==
    /\ origin \in Strings(MaxChars)
    /\ ins = <<>>
    /\ pos = 0
    /\ phase = "raw"
    /\ game = Fallout4VR
    /\ ncalls = 0
    /\ dumped = <<>>
    /\ subrecord = MreSubrecord_init(EDID, 0)
    /\ header = NoHeader
    /\ record = Blank(ShortFid(FidOfPlugin))
    /\ formElements = <<"MelFid", "MelFids">>
    /\ op = NoOp
    /\ result = Returned(0)
    /\ calls = <<>>
    /\ muts = 0
    /\ gen = 0

\* out.write_string(sub_type, string_val, max_size=max_size)
WriteString(max_size) ==
    /\ phase = "raw"
    /\ phase' = "written"
    /\ ins' = write_string_max(EDID, origin, max_size)
    /\ calls' = <<max_size>>
    /\ op' = Call("write_string", "", FALSE, "")
    /\ result' = Returned(0)
    /\ UNCHANGED <<origin, pos, record, formElements, muts, gen, header, game, ncalls,
                   dumped, subrecord>>

NextString == \E max_size \in MaxSizes : WriteString(max_size)

SpecString == InitString /\ [][NextString]_vars

\* ------------------------------------------------------- reader operations
\* A ModReader over a short stream serves read, unpack and seek calls.
MaxCalls == 3
ReaderStreams == {<<>>, Sub(EDID, <<97, 0>>), Sub(DATA, PackU32(1)) \o <<0>>}
ReadSizes == {0, 1, 4, 9}
UnpackFormats == {"I", "H", "4sH"}
UnpackSizes == {2, 4, 6}
SeekOffsets == {-12, -1, 0, 1, 3, 12}

InitReader ==
    /\ ins \in ReaderStreams
    /\ pos = 0
    /\ ncalls = 0
    /\ dumped = <<>>
    /\ subrecord = MreSubrecord_init(EDID, 0)
    /\ origin = <<>>
    /\ phase = "raw"
    /\ game = Fallout4VR
    /\ header = NoHeader
    /\ record = Blank(ShortFid(FidOfPlugin))
    /\ formElements = <<"MelFid", "MelFids">>
    /\ op = NoOp
    /\ result = Returned(0)
    /\ calls = <<>>
    /\ muts = 0
    /\ gen = 0

readerVars == <<phase, origin, ins, record, formElements, muts, gen, header, game, dumped,
                subrecord>>

\* One call of the reader that ended as r says; format is the format string
\* of the call, if it has one, and args are its numbers.
Served(name, format, args, r) ==
    /\ ncalls < MaxCalls
    /\ ncalls' = ncalls + 1
    /\ pos' = r.pos
    /\ result' = IF r.ok THEN Returned(0) ELSE Raise
    /\ op' = Call(name, "", FALSE, format)
    /\ calls' = args
    /\ UNCHANGED readerVars

\* ins.read(size)
Read(size) ==
    Served("read", "", <<size>>, ModReader_read(ins, pos, size))
\* ins.unpack(format, size)
Unpack(format, size) ==
    Served("unpack", format, <<size>>, ModReader_unpack(ins, pos, format, size))
\* ins.seek(offset, whence)
Seek(offset, whence) ==
    Served("seek", "", <<offset, whence>>, ModReader_seek(ins, pos, offset, whence))

NextReader ==
    \/ \E size \in ReadSizes : Read(size)
    \/ \E format \in UnpackFormats, size \in UnpackSizes : Unpack(format, size)
    \/ \E offset \in SeekOffsets, whence \in {SEEK_SET, SEEK_CUR, SEEK_END} :
          Seek(offset, whence)

SpecReader == InitReader /\ [][NextReader]_vars

\* ------------------------------------------- counted lists and effect groups
\* The subrecords the bodies of the second schema are made of.
EffectMenu ==
    << [tag |-> SPCT, payload |-> PackU32(9)],
       [tag |-> SPLO, payload |-> PackU32(FidOfMaster)],
       [tag |-> SPLO, payload |-> PackU32(FidOfPlugin)],
       [tag |-> KSIZ, payload |-> PackU32(9)],
       [tag |-> KWDA, payload |-> PackU32(FidOfMaster) \o PackU32(FidOfPlugin)],
       [tag |-> FULL, payload |-> <<97, 0>>],
       [tag |-> FULL, payload |-> <<98, 0>>],
       [tag |-> EFID, payload |-> PackU32(1)],
       [tag |-> EFID, payload |-> PackU32(2)],
       [tag |-> EFIT, payload |-> PackU32(5)] >>
CountedEntries == 1..5
GroupEntries == 6..10
MaxStream == 5

\* All sequences of at most n of the given indices into EffectMenu.
RECURSIVE EffectLists(_, _)
EffectLists(entries, n) ==
    IF n = 0 THEN {<<>>}
    ELSE LET shorter == EffectLists(entries, n - 1)
         IN  shorter \cup {Append(l, i) : l \in shorter, i \in entries}

RECURSIVE EffectBodyOf(_)
EffectBodyOf(subs) ==
    IF subs = <<>> THEN <<>>
    ELSE Sub(EffectMenu[Head(subs)].tag, EffectMenu[Head(subs)].payload)
         \o EffectBodyOf(Tail(subs))

\* The record before its body is loaded; data is what dumpData wrote last.
EffectBlank ==
    [data |-> <<>>, spells |-> <<>>, keywords |-> <<>>, full |-> None, effects |-> <<>>]

InitEffects(entries, n) ==
    /\ origin \in EffectLists(entries, n)
    /\ ins = EffectBodyOf(origin)
    /\ phase = "raw"
    /\ record = EffectBlank
    /\ formElements = <<"MelCountedFids", "MelCountedFidList">>
    /\ op = NoOp
    /\ result = Returned(0)
    /\ calls = <<>>
    /\ muts = 0
    /\ gen = 0
    /\ pos = 0
    /\ ncalls = 0
    /\ dumped = <<>>
    /\ subrecord = MreSubrecord_init(EDID, 0)
    /\ header = NoHeader
    /\ game = Fallout4VR

effectVars == <<origin, ins, formElements, gen, ncalls, header, game, dumped, subrecord>>

\* melSet.initRecord and melSet.loadData(record, ins, endPos) on the body.
LoadEffects ==
    /\ phase = "raw"
    /\ LET r == EffectSet_loadData(EffectDefaults, ins, 0, Len(ins), TRUE, <<>>)
       IN  /\ phase' = IF r.ok THEN "decoded" ELSE "failed"
           /\ record' = [data |-> <<>>, spells |-> r.record.spells,
                         keywords |-> r.record.keywords, full |-> r.record.full,
                         effects |-> r.record.effects]
           /\ result' = IF r.ok THEN Returned(0) ELSE Raise
           /\ calls' = r.handled
           /\ pos' = r.pos
    /\ op' = Call("load", "", FALSE, "")
    /\ UNCHANGED muts
    /\ UNCHANGED effectVars

\* The lists downstream code assigns to spells and keywords.
FidLists ==
    {<<>>, <<ShortFid(FidOfPlugin)>>,
     <<ShortFid(FidOfPlugin), ShortFid(FidOfMaster), ShortFid(FidOfPlugin)>>}

\* record.spells = v, record.keywords = v
AssignList(attr, v) ==
    /\ phase = "decoded"
    /\ muts < MaxMut
    /\ muts' = muts + 1
    /\ record' = [record EXCEPT ![attr] = v]
    /\ op' = Call("setattr", "", FALSE, attr)
    /\ result' = Returned(0)
    /\ UNCHANGED <<phase, calls, pos>>
    /\ UNCHANGED effectVars

\* melSet.dumpData(record, out) into an empty ModWriter; data = out.getvalue()
DumpEffects ==
    /\ phase = "decoded"
    /\ phase' = "dumped"
    /\ LET r == EffectSet_dumpData(record)
       IN  /\ record' = [record EXCEPT !.data = r.out]
           /\ result' = IF r.ok THEN Returned(Len(r.out)) ELSE Raise
    /\ op' = Call("dumpData", "", FALSE, "")
    /\ UNCHANGED <<calls, pos, muts>>
    /\ UNCHANGED effectVars

InitCounted == InitEffects(CountedEntries, MaxSubs)
NextCounted ==
    \/ LoadEffects
    \/ \E attr \in {"spells", "keywords"}, v \in FidLists : AssignList(attr, v)
    \/ DumpEffects
SpecCounted == InitCounted /\ [][NextCounted]_vars

InitGroups == InitEffects(GroupEntries, MaxStream)
NextGroups ==
    \/ LoadEffects
    \/ DumpEffects
SpecGroups == InitGroups /\ [][NextGroups]_vars

\* ==================================================================== claims
\* The identifiers of a record, and those of its fields.
IdsOf(r) == [fid |-> r.fid, script |-> r.script, spells |-> r.spells]
FieldIdsOf(r) == [script |-> r.script, spells |-> r.spells]
\* What they become when the mapper is applied to each.
MappedSpells(mapper, r) == [i \in 1..Len(r.spells) |-> Apply(mapper, r.spells[i])]
MappedIdsOf(mapper, r) ==
    [fid |-> Apply(mapper, r.fid), script |-> Apply(mapper, r.script),
     spells |-> MappedSpells(mapper, r)]
MappedFieldIdsOf(mapper, r) ==
    [script |-> Apply(mapper, r.script), spells |-> MappedSpells(mapper, r)]

\* C1: getSize on a changed record in long form raises and leaves the record
\* as it was; while longFids is set no getSize replaces data or size, and
\* longFids is cleared only by convertFids(toLong=False).
C1_LongRecordIsNotPacked ==
    [][ /\ (op'.name = "getSize" /\ record.changed /\ record.longFids)
            => (result'.status = "raised" /\ record' = record)
        /\ (op'.name = "getSize" /\ record.longFids)
            => (record'.data = record.data /\ record'.size = record.size)
        /\ (record.longFids /\ ~record'.longFids)
            => (op'.name = "convertFids" /\ ~op'.flag) ]_vars

\* C1: getSize has raised on a changed record in long form.
C1_Witness ==
    /\ op.name = "getSize" /\ result.status = "raised"
    /\ record.longFids /\ record.changed

\* An identifier in the representation the flag names; None is in both.
InForm(fid, long) == fid = NoFid \/ (IF long THEN IsLong(fid) ELSE IsShort(fid))
Uniform(r) ==
    /\ InForm(r.fid, r.longFids) /\ InForm(r.script, r.longFids)
    /\ \A i \in 1..Len(r.spells) : InForm(r.spells[i], r.longFids)

\* C2: a convertFids call with the translator of the requested form, on a
\* record whose fid and identifier fields are in the form longFids names,
\* leaves them in the form longFids names; when the mapper raises, the fid,
\* every identifier field and the flag are as they were.
C2_NeverMixed ==
    [][ (op'.name = "convertFids" /\ Uniform(record)
         /\ op'.mapper \in (IF op'.flag THEN {"long"} ELSE {"short", "shortNoA"}))
            => /\ Uniform(record')
               /\ result'.status = "raised"
                    => (IdsOf(record') = IdsOf(record)
                        /\ record'.longFids = record.longFids) ]_vars

\* C3 as claimed: a mapFids call with save=True that returns flips longFids
\* in the step in which it overwrites the identifier fields.
C3_MapFidsFlipsFlag ==
    [][ (op'.name = "mapFids" /\ op'.flag /\ result'.status = "ok"
         /\ FieldIdsOf(record') # FieldIdsOf(record))
            => record'.longFids # record.longFids ]_vars

\* C3 amended: mapFids never changes longFids, and with save=True a call
\* that returns has overwritten every identifier field with the mapper's
\* result; longFids changes only in a convertFids call that returns, to the
\* value of toLong, in the step in which the fid and every identifier field
\* are overwritten with the mapper's results.
C3_FlagFlipsInConvertFidsOnly ==
    [][ /\ op'.name = "mapFids"
            => /\ record'.longFids = record.longFids
               /\ (op'.flag /\ result'.status = "ok")
                    => FieldIdsOf(record') = MappedFieldIdsOf(op'.mapper, record)
        /\ record'.longFids # record.longFids
            => /\ op'.name = "convertFids" /\ result'.status = "ok"
               /\ record'.longFids = op'.flag
               /\ IdsOf(record') = MappedIdsOf(op'.mapper, record) ]_vars

\* C3: convertFids has flipped the flag of a record that has identifier
\* fields, which are now long.
C3_Witness ==
    /\ op.name = "convertFids" /\ result.status = "ok" /\ record.longFids
    /\ IsLong(record.script) /\ record.spells # <<>>

\* C4: convertFids(mapper, toLong) on a record whose longFids equals toLong
\* calls the mapper not once and changes no slot of the record.
C4_ConvertFidsNoOp ==
    [][ (op'.name = "convertFids" /\ op'.flag = record.longFids)
            => (calls' = <<>> /\ record' = record /\ result'.status = "ok") ]_vars

\* C4: the second of two convertFids(mapper, True) calls has returned
\* without a call of the mapper, on a record with identifier fields.
C4_Witness ==
    /\ op.name = "convertFids" /\ op.flag /\ op.again /\ calls = <<>>
    /\ record.longFids /\ record.script # NoFid

\* C5 as claimed: the second of two mapFids(mapper, save=True) calls in a
\* row leaves the identifier fields as the first left them.
C5_TwiceIsOnce ==
    [][ (op'.name = "mapFids" /\ op'.flag /\ op'.again /\ result'.status = "ok")
            => FieldIdsOf(record') = FieldIdsOf(record) ]_vars

\* A mapper that maps each of its results to itself.
AllFids == {NoFid, ShortFid(FidOfMaster), ShortFid(FidOfPlugin),
            LongFid("A.esm", 1), LongFid("P.esp", 1)}
Idempotent(mapper) ==
    \A f \in AllFids :
        Apply(mapper, f) # Raised => Apply(mapper, Apply(mapper, f)) = Apply(mapper, f)

\* C5 amended: the second of two mapFids(mapper, save=True) calls in a row
\* overwrites each identifier field with the mapper's result for what the
\* first call stored, mapper(mapper(x)); the fields are as the first call
\* left them when the mapper is idempotent.
C5_TwiceIsMapperTwice ==
    [][ (op'.name = "mapFids" /\ op'.flag /\ op'.again /\ result'.status = "ok")
            => /\ FieldIdsOf(record') = MappedFieldIdsOf(op'.mapper, record)
               /\ Idempotent(op'.mapper) => FieldIdsOf(record') = FieldIdsOf(record) ]_vars

\* C5: mapFids(long mapper, save=True) has run twice in a row on a record
\* with identifier fields.
C5_Witness ==
    /\ op.name = "mapFids" /\ op.flag /\ op.again /\ op.mapper = "long"
    /\ result.status = "ok" /\ IsLong(record.script) /\ record.spells # <<>>

Complete(subs) ==
    /\ InSchemaOrder(subs)
    /\ \E i \in 1..Len(subs) : SlotOf(subs[i]) = 2
    /\ \E i \in 1..Len(subs) : SlotOf(subs[i]) = 5

\* C8: a body of valid subrecords in schema order, decoded, marked changed
\* and packed by getSize, gives the bytes of the body.
C8_RoundTrip ==
    (phase = "decoded" /\ gen = 0 /\ op.name = "getSize" /\ result.packed
     /\ Complete(origin))
        => record.data = BodyOf(origin)

\* C9: after one field of a complete decoded record was assigned a value
\* its format holds, the record marked changed and getSize called, the bytes
\* decode to the fields the record holds (the assigned value, and every other
\* field as decoded) and changed is False.
C9_MutationRoundTrip ==
    (phase = "decoded" /\ op.name = "getSize" /\ result.packed /\ muts = 1
     /\ Complete(origin) /\ FitsU32(record.value))
        => /\ ~record.changed
           /\ NewRecord(record.fid, record.data).ok
           /\ FieldsOf(NewRecord(record.fid, record.data).record) = FieldsOf(record)

\* C10: the bytes getSize packs for a record decoded from packed bytes are
\* those bytes: encode(decode(e)) = e for e = encode(decode(b)).
C10_EncodeDecodeIdempotent ==
    (phase = "decoded" /\ gen >= 1 /\ op.name = "getSize" /\ result.packed)
        => record.data = ins

\* C17: unpack of a whole header raises when the 4-byte type is not in
\* recordTypes; for a GRUP of group type 0 it returns the label as the 4-byte
\* string, and raises when that is not in topTypes; for a GRUP of another
\* group type it returns the label as the unsigned integer.
C17_UnpackChecksTypes ==
    (op.name = "unpackRecHeader" /\ Len(ins) >= game.rec_header_size)
        => LET rec_type == Slice(ins, 0, 4)
               groupType == UnpackU32(ins, 12)
               str0 == Slice(ins, 8, 4)
           IN  /\ rec_type \notin game.recordTypes => result.status = "raised"
               /\ (rec_type = GRUP /\ groupType = 0 /\ str0 \in game.topTypes)
                    => (result.status = "ok" /\ header.obj.arg1 = StrLabel(str0))
               /\ (rec_type = GRUP /\ groupType = 0 /\ str0 \notin game.topTypes)
                    => result.status = "raised"
               /\ (rec_type = GRUP /\ groupType # 0)
                    => /\ result.status = "ok"
                       /\ header.obj.arg1 = IntLabel(UnpackU32(ins, 8))
                       /\ header.obj.arg2 = groupType

\* C17: the header of a top group of a known type was unpacked.
C17_Witness ==
    /\ op.name = "unpackRecHeader" /\ result.status = "ok"
    /\ header.obj.recType = GRUP /\ header.obj.arg2 = 0
    /\ header.obj.arg1 = StrLabel(GMST)

\* C18: pack of a group header lays the label out by the type of the label,
\* whatever groupType is: a string as its 4 bytes, a tuple as two 16-bit
\* values in the order (label[0], label[1]), any other label as one 32-bit
\* integer; and packing a group header that was unpacked gives the bytes it
\* was unpacked from.
C18_PackByLabelType ==
    (op.name = "pack" /\ header.obj.recType = GRUP)
        => LET label == header.obj.arg1
               bytes == Slice(header.out, 8, 4)
           IN  /\ result.status = "ok"
                    => /\ label.k = "str" => bytes = label.v
                       /\ label.k = "tuple"
                            => bytes = PackI16(label.v[1]) \o PackI16(label.v[2])
                       /\ label.k = "int" => bytes = PackU32(label.v[1])
                       /\ Slice(header.out, 12, 4) = PackU32(header.obj.arg2)
               /\ phase = "decoded"
                    => /\ result.status = "ok"
                       /\ header.out = Slice(ins, 0, game.rec_header_size)

\* C18: a built group header of group type 0 with a tuple label was packed.
C18_Witness ==
    /\ op.name = "pack" /\ result.status = "ok" /\ phase = "built"
    /\ header.obj.recType = GRUP /\ header.obj.arg2 = 0
    /\ header.obj.arg1 = TupleLabel(1, -2)
    /\ Slice(header.out, 8, 4) = <<1, 0, 254, 255>>

\* C19: pack returns the header with the trailing field exactly when
\* plugin_form_version is not 0; for a record header the field then holds the
\* form version in its low 16 bits and the high 16 bits extra had, for a
\* group header extra as it is; a second pack returns the bytes of the first.
C19_FormVersionField ==
    [][ op'.name = "pack"
            => LET version == game.plugin_form_version
                   out == header'.out
               IN  /\ result'.status = "ok"
                        => Len(out) = IF version # 0 THEN 24 ELSE 20
                   /\ (result'.status = "ok" /\ version # 0
                       /\ header.obj.recType # GRUP)
                        => /\ Slice(out, 20, 2) = PackU16(version)
                           /\ Slice(out, 22, 2) = Slice(PackU32(header.obj.extra), 2, 2)
                   /\ (result'.status = "ok" /\ version # 0
                       /\ header.obj.recType = GRUP)
                        => Slice(out, 20, 4) = PackU32(header.obj.extra)
                   /\ (op.name = "pack" /\ result.status = "ok")
                        => (result'.status = "ok" /\ out = header.out) ]_vars

\* C19: a record header whose extra has high bits set was packed twice with
\* a form version.
C19_Witness ==
    /\ op.name = "pack" /\ result.status = "ok" /\ gen = 2
    /\ game.plugin_form_version = 131 /\ header.obj.recType = GMST
    /\ Slice(header.out, 20, 4) = <<131, 0, 3, 0>>

\* What the last packSub call was handed, and whether it wrote a subrecord.
LastSub == origin[Len(origin)]
Written == phase # "raw" /\ origin # <<>> /\ LastSub.n >= 0 /\ LastSub.packs

\* C11: packSub writes a payload of n <= 0xFFFF bytes as the header
\* (tag, u16 n) and the payload, and a payload of n >= 0x10000 bytes as the
\* escape subrecord ('XXXX', u16 4, u32 n), the header (tag, u16 0) and the
\* payload.
C11_PackSubLayout ==
    [][PackSub(LastSub'.tag, LastSub'.n, LastSub'.packs) /\ LastSub'.n >= 0 /\ LastSub'.packs =>
        LET n == LastSub'.n
            tag == LastSub'.tag
            added == SubSeq(ins', Len(ins) + 1, Len(ins'))
        IN  /\ n <= 65535 =>
                added = tag \o <<n % 256, n \div 256>> \o Payload(n)
            /\ n >= 65536 =>
                added = <<88, 88, 88, 88, 4, 0>>
                        \o <<n % 256, (n \div 256) % 256, n \div 65536, 0>>
                        \o tag \o <<0, 0>> \o Payload(n)]_vars
C11_Witness ==
    /\ Written /\ phase = "written" /\ LastSub.n = 65536
    /\ Len(ins) = 65536 + 16

\* C12: unpackSubHeader on the bytes packSub(tag, payload) wrote returns
\* (tag, len(payload)) and leaves the cursor at the first byte of the payload,
\* also for payloads longer than 0xFFFF bytes.
C12_HeaderRoundTrip ==
    Written /\ phase \in {"header", "failed"} =>
        /\ phase = "header"
        /\ result.status = "ok"
        /\ result.tag = LastSub.tag
        /\ result.size = LastSub.n
        /\ pos = Len(ins) - LastSub.n
        /\ Slice(ins, pos, LastSub.n) = Payload(LastSub.n)
C12_Witness ==
    /\ Written /\ phase = "header" /\ LastSub.n = 65537
    /\ result.size = 65537 /\ pos = 16

\* The cursor is inside the stream.
InBounds == 0 <= pos /\ pos <= Len(ins)
\* The last call was refused by the bounds check of read, unpack or seek.
Refused ==
    \/ op'.name \in {"read", "unpack"} /\ pos + calls'[1] > Len(ins)
    \/ /\ op'.name = "seek"
       /\ LET newPos == NewPos(ins, pos, calls'[1], calls'[2])
          IN  newPos < 0 \/ newPos > Len(ins)
Failed == result'.status = "raised"

\* C20 as stated: over every sequence of read, unpack and seek calls the cursor
\* stays within 0 .. size, a call that would leave that range fails, and a
\* failed call leaves the cursor where it was.
C20_FailedCallKeepsCursor ==
    /\ []InBounds
    /\ [][ncalls' = ncalls + 1 =>
            /\ Refused => Failed
            /\ Failed => pos' = pos]_vars

\* C20, amended: the cursor stays within 0 .. size; a call the bounds check
\* refuses fails and leaves the cursor where it was; read and seek fail in no
\* other way; unpack(format, n) with n bytes left also fails when n is not
\* the size of format, and then the cursor has moved past the n bytes.
C20_RefusedCallKeepsCursor ==
    /\ []InBounds
    /\ [][ncalls' = ncalls + 1 =>
            /\ Refused => Failed /\ pos' = pos
            /\ Failed /\ ~Refused =>
                  /\ op'.name = "unpack"
                  /\ calcsize(op'.attr) # calls'[1]
                  /\ pos' = pos + calls'[1]]_vars
C20_Witness ==
    /\ op.name = "seek" /\ result.status = "raised" /\ pos = 4 /\ ncalls = 2

\* The index in subs of the first subrecord whose tag has no descriptor, 0
\* when every tag has one.
FirstUnknown(subs) ==
    IF \A i \in 1..Len(subs) : Menu[subs[i]].tag \in loaders THEN 0
    ELSE CHOOSE i \in 1..Len(subs) :
            /\ Menu[subs[i]].tag \notin loaders
            /\ \A j \in 1..(i - 1) : Menu[subs[j]].tag \in loaders

\* C15: a subrecord tag without descriptor makes MelSet.loadData fail and the
\* error reaches the caller; the record holds what the subrecords before it
\* set and nothing of those behind it, and the cursor stands behind the
\* header of the unknown subrecord.
C15_UnknownTagIsFatal ==
    gen = 0 /\ phase \in {"decoded", "failed"} /\ FirstUnknown(origin) > 0 =>
        LET before == BodyOf(SubSeq(origin, 1, FirstUnknown(origin) - 1))
            upTo == MelSet_loadData(Defaults, before, 0, Len(before))
            whole == MelSet_loadData(Defaults, ins, 0, Len(ins))
        IN  /\ phase = "failed"
            /\ result.status = "raised"
            /\ ~whole.ok
            /\ upTo.ok => /\ whole.record = upTo.record
                          /\ whole.pos = Len(before) + 6
C15_Witness ==
    /\ gen = 0 /\ phase = "failed"
    /\ origin = <<1, 7, 2>>
    /\ MelSet_loadData(Defaults, ins, 0, Len(ins)).record.eid = <<97>>
    /\ MelSet_loadData(Defaults, ins, 0, Len(ins)).record.value = 0

\* The bodies made of origin without its counter subrecords.
NoCounters(subs) == SelectSeq(subs, LAMBDA i : EffectMenu[i].tag \notin {SPCT, KSIZ})
\* The subrecord of a fid list in one piece, and one subrecord per fid.
RECURSIVE FidBytes(_)
FidBytes(fids) == IF fids = <<>> THEN <<>> ELSE PackU32(Head(fids).n) \o FidBytes(Tail(fids))
RECURSIVE FidSubs(_, _)
FidSubs(tag, fids) ==
    IF fids = <<>> THEN <<>>
    ELSE tag \o <<4, 0>> \o PackU32(Head(fids).n) \o FidSubs(tag, Tail(fids))

\* C13: a counted list that holds n >= 1 identifiers is written as the
\* counter subrecord with the value n, then the counted subrecords, whatever
\* counter the body had; a list without identifiers writes nothing.  Loading
\* reads the counter subrecords and no field is set from them.
C13_CounterIsListLength ==
    /\ phase = "dumped" =>
          record.data =
              (IF record.spells = <<>> THEN <<>>
               ELSE SPCT \o <<4, 0>> \o <<Len(record.spells), 0, 0, 0>>
                    \o FidSubs(SPLO, record.spells))
              \o (IF record.keywords = <<>> THEN <<>>
                  ELSE KSIZ \o <<4, 0>> \o <<Len(record.keywords), 0, 0, 0>>
                       \o KWDA \o <<4 * Len(record.keywords), 0>>
                       \o FidBytes(record.keywords))
    /\ phase \in {"decoded", "failed"} /\ muts = 0 =>
          LET body == EffectBodyOf(NoCounters(origin))
              bare == EffectSet_loadData(EffectDefaults, body, 0, Len(body), TRUE, <<>>)
          IN  /\ phase = "decoded"
              /\ bare.ok
              /\ record = bare.record @@ [data |-> <<>>]
              /\ pos = Len(ins)
C13_Witness ==
    /\ phase = "dumped" /\ muts = 1
    /\ origin = <<1, 2>>
    /\ Len(record.spells) = 3
    /\ SubSeq(record.data, 1, 10) = SPCT \o <<4, 0, 3, 0, 0, 0>>

\* The tag of the i-th subrecord of the body, how many trigger subrecords
\* ('EFID') the body has up to the i-th, and the subrecords that arrive
\* behind the trigger at i before the next trigger.
TagAt(i) == EffectMenu[origin[i]].tag
Rank(i) == Cardinality({j \in 1..i : TagAt(j) = EFID})
Segment(i) == {j \in (i + 1)..Len(origin) : Rank(j) = Rank(i) /\ TagAt(j) # EFID}
Latest(S) == CHOOSE j \in S : \A k \in S : k <= j
\* The element the trigger at i and its segment decode to.
ElementOf(i) ==
    LET efit == {j \in Segment(i) : TagAt(j) = EFIT}
        full == {j \in Segment(i) : TagAt(j) = FULL}
    IN  [name |-> UnpackU32(EffectMenu[origin[i]].payload, 0),
         magnitude |-> IF efit = {} THEN 0
                       ELSE UnpackU32(EffectMenu[origin[Latest(efit)]].payload, 0),
         full |-> IF full = {} THEN None
                  ELSE cstrip(EffectMenu[origin[Latest(full)]].payload)]

\* C14: a body that starts with the trigger tag of a MelGroups decodes to one
\* element per trigger subrecord, in the order of arrival; every other
\* subrecord fills the element appended last, and a field no subrecord of
\* the element set has the default of its descriptor.
C14_OneElementPerTrigger ==
    origin # <<>> /\ TagAt(1) = EFID /\ phase # "raw" =>
        /\ phase # "failed"
        /\ Len(record.effects) = Rank(Len(origin))
        /\ \A i \in 1..Len(origin) :
               TagAt(i) = EFID => record.effects[Rank(i)] = ElementOf(i)
C14_Witness ==
    /\ phase = "decoded"
    /\ origin = <<8, 10, 9, 10, 8>>
    /\ Len(record.effects) = 3
    /\ record.effects[2] = [name |-> 2, magnitude |-> 5, full |-> None]
    /\ record.effects[3] = [name |-> 1, magnitude |-> 0, full |-> None]

\* Whether the i-th subrecord of the body is its first 'FULL', and whether an
\* 'EFID' arrived before it.
FirstFull(i) == TagAt(i) = FULL /\ \A j \in 1..(i - 1) : TagAt(j) # FULL
AfterEFID(i) == \E j \in 1..(i - 1) : TagAt(j) = EFID

\* C16 as stated: of the 'FULL' subrecords of a record only the first is
\* handed to MelFull0, every later one to the descriptor of the tag table.
C16_OnlyFirstFull ==
    phase # "raw" =>
        \A i \in 1..Len(calls) :
            TagAt(i) = FULL =>
                calls[i] = IF FirstFull(i) THEN "MelFull0" ELSE effectLoaders[FULL]

\* C16, amended: every 'FULL' subrecord that arrives before the first 'EFID'
\* is handed to MelFull0, every 'FULL' behind an 'EFID' to the descriptor of
\* the tag table.
C16_FullBeforeEFID ==
    phase # "raw" =>
        \A i \in 1..Len(calls) :
            TagAt(i) = FULL =>
                calls[i] = IF AfterEFID(i) THEN effectLoaders[FULL] ELSE "MelFull0"
C16_Witness ==
    /\ phase = "decoded"
    /\ origin = <<6, 7, 8, 6>>
    /\ calls = <<"MelFull0", "MelFull0", "MelGroups", "MelGroups">>
    /\ record.full = <<98>>
    /\ record.effects[1].full = <<97>>

\* C24 as stated: packSub0 has the threshold of packSub.  A string that with
\* its terminator is at most 0xFFFF bytes long is written as the header
\* (tag, u16 length), the string and the terminator, a longer one with the
\* escape subrecord in front and 0 in the header.
C24_SameThreshold ==
    [][PackSub0(LastSub'.tag, LastSub'.n) /\ LastSub'.n >= 0 =>
        LET lenData == LastSub'.n + 1
            tag == LastSub'.tag
            added == SubSeq(ins', Len(ins) + 1, Len(ins'))
        IN  /\ added = packSub(tag, Payload(LastSub'.n) \o <<0>>, TRUE)
            /\ lenData <= 65535 =>
                added = tag \o <<lenData % 256, lenData \div 256>>
                        \o Payload(LastSub'.n) \o <<0>>
            /\ lenData >= 65536 =>
                added = <<88, 88, 88, 88, 4, 0>>
                        \o <<lenData % 256, (lenData \div 256) % 256, lenData \div 65536, 0>>
                        \o tag \o <<0, 0>> \o Payload(LastSub'.n) \o <<0>>]_vars

\* The string bytes of the subrecord write_string wrote: what lies between
\* the 6-byte header and the terminator.
StringPayload == SubSeq(ins, 7, Len(ins) - 1)

\* C22 as stated: with max_size > 0 the string bytes written are at most
\* max_size, they encode a prefix of the string, and a string whose encoding
\* fits is written whole.
C22_TruncatedToMaxSize ==
    phase = "written" =>
        /\ Len(StringPayload) <= calls[1]
        /\ \E n \in 0..Len(origin) : StringPayload = Encode(SubSeq(origin, 1, n))
        /\ Len(Encode(origin)) <= calls[1] => StringPayload = Encode(origin)

\* C28 as stated: when a subrecord cannot be encoded during getSize (the value
\* of the struct field does not fit its format), getSize raises and leaves
\* data, size and changed alone; it does not return with the subrecord left
\* out.
C28_FailurePropagates ==
    [][(/\ op'.name = "getSize"
        /\ record.changed /\ ~record.longFids
        /\ ~FitsU32(record.value)) =>
          /\ result'.status = "raised"
          /\ record'.data = record.data
          /\ record'.size = record.size
          /\ record'.changed = record.changed]_vars

\* ------------------------------------------------- lifecycle with dump
\* A record of a file with its header, from the load to the dump: the bodies
\* hold a struct field and an identifier of the master, the flags are none,
\* deleted or compressed.  The body of a compressed record is its u32 length
\* and its compressed form; a file may also state a wrong length.  In this
\* specification the header holds the fid as the record does, and op.attr
\* names the exception a call raised.
DumpInputs == {<<>>, <<2, 3>>}
FlagChoices == {0, 32, 262144}
StreamsOf(body, flags1) ==
    IF Compressed(flags1)
    THEN {PackU32(n) \o zlib_compress(body) : n \in {Len(body), Len(body) + 1}}
    ELSE {body}
\* What setData is given: a body of one subrecord.
DataChoices == {Sub(DATA, PackU32(3))}
\* What MreSubrecord.setData is given.
SubDataChoices == {<<>>, <<7>>}

InitDump ==
    /\ origin \in DumpInputs
    /\ \E flags \in FlagChoices :
          /\ ins \in StreamsOf(BodyOf(origin), flags)
          /\ header = [obj |-> RecordHeader_init(KYWD, Len(ins), IntLabel(flags),
                                                 ShortFid(FidOfPlugin), 0, 0),
                       out |-> <<>>]
    /\ phase \in {"raw", "sub"}
    /\ record = Blank(ShortFid(FidOfPlugin))
    /\ formElements = <<"MelFid", "MelFids">>
    /\ op = NoOp
    /\ result = Returned(0)
    /\ calls = <<>>
    /\ muts = 0
    /\ gen = 0
    /\ pos = 0
    /\ game = Fallout4VR
    /\ ncalls = 0
    /\ dumped = <<>>
    /\ subrecord = MreSubrecord_init(EDID, 0)

\* The calls go to a record, an instance of a MelRecord class ("decoded") or
\* of MreRecord itself ("base"), or to a MreSubrecord ("sub").
Live == phase \in {"decoded", "base"}
flags1 == header.obj.arg1.v[1]
lifeVars == <<origin, ins, formElements, muts, gen, pos, game, ncalls>>

\* MelRecord(header, ins, do_unpack=True)
RecLoad ==
    /\ phase = "raw"
    /\ LET r == MreRecord_load(header.obj, ins)
       IN  /\ phase' = IF r.ok THEN "decoded" ELSE "failed"
           /\ record' = IF r.ok THEN r.record ELSE record
           /\ result' = IF r.ok THEN Returned(0) ELSE Raise
           /\ op' = Call("load", "", FALSE, r.error)
    /\ calls' = <<>>
    /\ UNCHANGED <<lifeVars, header, dumped, subrecord>>

\* MreRecord(header, ins): the body is read and kept, nothing is decoded.
RecLoadRaw ==
    /\ phase = "raw"
    /\ phase' = "base"
    /\ record' = [Blank(header.obj.arg2) EXCEPT !.data = ins, !.size = header.obj.size]
    /\ result' = Returned(0)
    /\ op' = Call("load", "", FALSE, "")
    /\ calls' = <<>>
    /\ UNCHANGED <<lifeVars, header, dumped, subrecord>>

\* MreRecord.setChanged(value)
RecSetChanged(value) ==
    /\ Live
    /\ record' = [record EXCEPT !.changed = value]
    /\ op' = Call("setChanged", "", value, "")
    /\ result' = Returned(0)
    /\ calls' = <<>>
    /\ UNCHANGED <<phase, lifeVars, header, dumped, subrecord>>

\* MreRecord.setData(data)
RecSetData(data) ==
    /\ Live
    /\ record' = MreRecord_setData(record, data)
    /\ op' = Call("setData", "", FALSE, "")
    /\ result' = Returned(0)
    /\ calls' = <<>>
    /\ UNCHANGED <<phase, lifeVars, header, dumped, subrecord>>

\* getSize returned r or raised.
Sized(r) ==
    /\ record' = r.record
    /\ result' = IF r.ok THEN [Returned(r.size) EXCEPT !.packed = record.changed]
                 ELSE Raise
    /\ op' = Call("getSize", "", FALSE, IF r.ok THEN "" ELSE "StateError")

\* MreRecord.getSize()
RecGetSize ==
    /\ Live
    /\ Sized(IF phase = "decoded" THEN MreRecord_getSizeWithFlags(record, flags1)
             ELSE MreRecord_getSizeBase(record))
    /\ calls' = <<>>
    /\ UNCHANGED <<phase, lifeVars, header, dumped, subrecord>>

\* The copy r.record takes the place of the record.
Copied(r) ==
    /\ record' = r.record
    /\ result' = IF r.ok THEN Returned(0) ELSE Raise
    /\ calls' = r.calls

\* MreRecord.getTypeCopy(mapper) of a MelRecord.  mapper "" is no mapper.
RecGetTypeCopy(mapper) ==
    /\ phase = "decoded"
    /\ Copied(MreRecord_getTypeCopy(record, mapper, formElements))
    /\ op' = Call("getTypeCopy", mapper, FALSE, "")
    /\ UNCHANGED <<phase, lifeVars, header, dumped, subrecord>>

\* MreRecord.getBaseCopy(); the copy takes the place of the record.
RecGetBaseCopy ==
    /\ Live
    /\ record' = MreRecord_getBaseCopy(header.obj, record)
    /\ phase' = "base"
    /\ op' = Call("getBaseCopy", "", FALSE, "")
    /\ result' = Returned(0)
    /\ calls' = <<>>
    /\ UNCHANGED <<lifeVars, header, dumped, subrecord>>

\* MreRecord.dump(out) to a new ModWriter.
RecDump ==
    /\ Live
    /\ LET r == MreRecord_dump(game, header.obj, record)
       IN  /\ header' = [header EXCEPT !.obj = r.obj]
           /\ dumped' = r.out
           /\ result' = IF r.ok THEN Returned(0) ELSE Raise
           /\ op' = Call("dump", "", FALSE, r.error)
    /\ calls' = <<>>
    /\ UNCHANGED <<phase, record, lifeVars, subrecord>>

\* MreRecord.getDecompressed(); result.tag takes the bytes it returns.
RecGetDecompressed ==
    /\ Live
    /\ LET r == MreRecord_getDecompressed(flags1, record.data)
       IN  /\ result' = IF r.ok THEN [Returned(0) EXCEPT !.tag = r.out] ELSE Raise
           /\ op' = Call("getDecompressed", "", FALSE, r.error)
    /\ calls' = <<>>
    /\ UNCHANGED <<phase, record, lifeVars, header, dumped, subrecord>>

\* MreSubrecord.setChanged(value)
SubSetChanged(value) ==
    /\ phase = "sub"
    /\ subrecord' = [subrecord EXCEPT !.changed = value]
    /\ op' = Call("sub.setChanged", "", value, "")
    /\ result' = Returned(0)
    /\ calls' = <<>>
    /\ UNCHANGED <<phase, record, lifeVars, header, dumped>>

\* MreSubrecord.setData(data)
SubSetData(data) ==
    /\ phase = "sub"
    /\ subrecord' = MreSubrecord_setData(subrecord, data)
    /\ op' = Call("sub.setData", "", FALSE, "")
    /\ result' = Returned(0)
    /\ calls' = <<>>
    /\ UNCHANGED <<phase, record, lifeVars, header, dumped>>

\* MreSubrecord.dump(out) to a new ModWriter.
SubDump ==
    /\ phase = "sub"
    /\ LET r == MreSubrecord_dump(subrecord)
       IN  /\ dumped' = r.out
           /\ result' = IF r.ok THEN Returned(0) ELSE Raise
           /\ op' = Call("sub.dump", "", FALSE, IF r.ok THEN "" ELSE "StateError")
    /\ calls' = <<>>
    /\ UNCHANGED <<phase, record, lifeVars, header, subrecord>>

NextDump ==
    \/ RecLoad
    \/ RecLoadRaw
    \/ SetAttr("value", 2)
    \/ \E value \in BOOLEAN : RecSetChanged(value)
    \/ \E data \in DataChoices : RecSetData(data)
    \/ RecGetSize
    \/ \E toLong \in BOOLEAN : ConvertFids(IF toLong THEN "long" ELSE "shortNoA", toLong)
    \/ \E mapper \in {"", "long"} : RecGetTypeCopy(mapper)
    \/ RecGetBaseCopy
    \/ RecDump
    \/ RecGetDecompressed
    \/ \E value \in BOOLEAN : SubSetChanged(value)
    \/ \E data \in SubDataChoices : SubSetData(data)
    \/ SubDump

SpecDump == InitDump /\ [][NextDump]_vars

\* C21: for a record whose compressed flag is set, getDecompressed returns
\* what data[4:] inflates to exactly when that has the length the first four
\* bytes of data state, and raises ModError when the length differs; a
\* getSize that packs stores the u32 length of the encoded body followed by
\* its compressed form, on which getDecompressed returns the encoded body.
C21_CompressedLengthChecked ==
    [][Compressed(flags1) =>
        /\ (/\ op'.name = "getDecompressed"
            /\ record.data # None /\ Len(record.data) >= 4
            /\ zlib_decompress(SubSeq(record.data, 5, Len(record.data))).ok) =>
              LET decomp == zlib_decompress(SubSeq(record.data, 5, Len(record.data))).out
              IN  IF Len(decomp) = UnpackU32(record.data, 0)
                  THEN result'.status = "ok" /\ result'.tag = decomp
                  ELSE result'.status = "raised" /\ op'.attr = "ModError"
        /\ (op'.name = "getSize" /\ result'.status = "ok" /\ result'.packed) =>
              LET encoded == MelSet_dumpData(record).out
              IN  /\ record'.data = PackU32(Len(encoded)) \o zlib_compress(encoded)
                  /\ record'.size = Len(record'.data)
                  /\ MreRecord_getDecompressed(flags1, record'.data)
                        = [ok |-> TRUE, out |-> encoded, error |-> ""]]_vars
\* getDecompressed has returned the encoded body of a compressed record whose
\* value was assigned after the load and packed by getSize.
C21_Witness ==
    /\ Compressed(flags1)
    /\ op.name = "getDecompressed" /\ result.status = "ok"
    /\ record.value = 2 /\ ~record.changed
    /\ record.data # ins
    /\ result.tag = MelSet_dumpData(record).out
    /\ result.tag # <<>>

\* C23 as stated: over all sequences of load, convertFids, setChanged,
\* setData, getSize, getTypeCopy and dump, a dump of a record whose longFids
\* flag is True writes no byte.
C23_LongRecordIsNotDumped ==
    [][op'.name = "dump" /\ record.longFids => dumped' = <<>>]_vars

\* C26 as stated: over all sequences of load, setData, setChanged, getSize,
\* getBaseCopy and dump, a dump that succeeds writes a header whose size field
\* is the number of body bytes written after it.
C26_HeaderSizeIsBodyLength ==
    [][op'.name = "dump" /\ result'.status = "ok" =>
        UnpackU32(dumped', 4) = Len(dumped') - game.rec_header_size]_vars

\* The changed flag of the object a dump call goes to.
ChangedAt(name) == IF name = "dump" THEN record.changed ELSE subrecord.changed

MaxLoopSubs == 2
endPos == header.obj.size

InitLoop ==
    /\ origin \in SubLists(MaxLoopSubs)
    /\ ins = BodyOf(origin)
    /\ \E size \in 0..(Len(ins) + 2) :
          header = [obj |-> RecordHeader_init(KYWD, size, IntLabel(0), 0, 0, 0),
                    out |-> <<>>]
    /\ phase = "loading"
    /\ record = Blank(ShortFid(FidOfPlugin))
    /\ formElements = <<"MelFid", "MelFids">>
    /\ op = NoOp
    /\ result = Returned(0)
    /\ calls = <<>>
    /\ muts = 0
    /\ gen = 0
    /\ pos = 0
    /\ game = Fallout4VR
    /\ ncalls = 0
    /\ dumped = <<>>
    /\ subrecord = MreSubrecord_init(EDID, 0)

\* One turn of 'while not insAtEnd(endPos, recType)': e is what atEnd did and
\* r what the body of the loop does when it is entered.
Iterated(e, r) ==
    /\ phase' = IF ~e.ok THEN "failed"
                ELSE IF e.atEnd THEN "decoded"
                ELSE IF r.ok THEN "loading" ELSE "failed"
    /\ record' = IF e.ok /\ ~e.atEnd THEN r.record ELSE record
    /\ pos' = IF e.ok /\ ~e.atEnd THEN r.pos ELSE pos
    /\ result' = IF ~e.ok \/ (~e.atEnd /\ ~r.ok) THEN Raise ELSE Returned(0)
    /\ op' = Call("loadData", "", FALSE,
                  IF ~e.ok THEN "Exceeded limit"
                  ELSE IF ~e.atEnd /\ ~r.ok THEN "error" ELSE "")

Iteration ==
    /\ phase = "loading"
    /\ Iterated(ModReader_atEnd(pos, endPos, Len(ins)),
                MelSet_loadData_body(record, ins, pos))
    /\ ncalls' = ncalls + 1
    /\ UNCHANGED <<origin, ins, formElements, calls, muts, gen, header, game,
                   dumped, subrecord>>

NextLoop == Iteration

SpecLoop == InitLoop /\ [][NextLoop]_vars
\* The loop runs in one call: an iteration that can be taken is taken.
SpecLoopFair == SpecLoop /\ WF_vars(Iteration)

\* C25: the decode loop terminates on every input; each iteration raises or
\* advances the cursor by at least the 6 bytes of a subrecord header; the loop
\* returns only with the cursor at the declared end, and raises ModError
\* ('Exceeded limit') when a subrecord has carried the cursor past it.
C25_LoopTerminates ==
    /\ [][ncalls' # ncalls =>
            \/ phase' = "failed" /\ result'.status = "raised"
            \/ phase' = "decoded" /\ pos' = pos /\ pos = endPos
            \/ phase' = "loading" /\ pos' >= pos + 6]_vars
    /\ [][phase = "loading" /\ pos > endPos /\ ncalls' # ncalls =>
            phase' = "failed" /\ op'.attr = "Exceeded limit" /\ pos' = pos]_vars
    /\ [](phase = "decoded" => pos = endPos /\ result.status = "ok")
    /\ <>(phase \in {"decoded", "failed"})
\* A loop that raised 'Exceeded limit' after two subrecords were decoded.
C25_Witness ==
    /\ phase = "failed" /\ op.attr = "Exceeded limit"
    /\ ncalls = 3 /\ pos > endPos
    /\ record.value = 1

\* ------------------------------------------------ one subrecord, every kind
\* loadData of each descriptor kind on the payload of one subrecord whose
\* header states size_ bytes, in a body that goes on behind it.  origin holds
\* the kind and the declared size, pos the cursor behind the header.
MaxSize == 9
KindStream == <<1, 0, 0, 0, 2, 0, 0, 0, 97, 0, 3, 0, 0, 0, 4, 0>>

InitKinds ==
    /\ origin \in [kind : Kinds, size : 0..MaxSize]
    /\ ins = KindStream
    /\ pos \in {0, 4}
    /\ phase = "raw"
    /\ record = KindDefaults
    /\ formElements = <<"MelFid", "MelFids">>
    /\ op = NoOp
    /\ result = Returned(0)
    /\ calls = <<>>
    /\ muts = 0
    /\ gen = 0
    /\ header = NoHeader
    /\ game = Fallout4VR
    /\ ncalls = 0
    /\ dumped = <<>>
    /\ subrecord = MreSubrecord_init(EDID, 0)

\* loadData returned r or raised.
KindLoaded(r) ==
    /\ phase' = IF r.ok THEN "decoded" ELSE "failed"
    /\ record' = r.record
    /\ pos' = r.pos
    /\ result' = IF r.ok THEN Returned(0) ELSE Raise

\* loaders[Type].loadData(record, ins, Type, size, readId)
LoadKind ==
    /\ phase = "raw"
    /\ KindLoaded(KindLoadData(origin.kind, record, ins, pos, origin.size))
    /\ op' = Call("loadData", "", FALSE, origin.kind)
    /\ UNCHANGED <<origin, ins, formElements, calls, muts, gen, header, game, ncalls,
                   dumped, subrecord>>

NextKinds == LoadKind

SpecKinds == InitKinds /\ [][NextKinds]_vars

\* C29 as stated: for each descriptor kind a loadData that returns has
\* advanced the cursor by exactly the declared size of the subrecord.
C29_CursorAdvancesBySize ==
    [][op'.name = "loadData" /\ result'.status = "ok" => pos' = pos + origin.size]_vars

\* ------------------------------------------------- walking the identifiers
\* A loaded record that is converted, walked by mapFids without save, and
\* asked for the masters it uses.
UpdatedMasters(r) ==
    /\ record' = r.record
    /\ result' = IF r.ok THEN Returned(0) ELSE Raise
    /\ calls' = r.calls

\* MelRecord.updateMasters(masters)
UpdateMasters ==
    /\ phase = "decoded"
    /\ UpdatedMasters(MelSet_updateMasters(record, formElements))
    /\ op' = Call("updateMasters", "", FALSE, "")
    /\ UNCHANGED <<phase, origin, ins, formElements, muts, gen>>
    /\ UNCHANGED io

InitMasters == InitWith(FidInputs, SetOrders)

NextMasters ==
    \/ Load
    \/ \E toLong \in BOOLEAN : ConvertFids(IF toLong THEN "long" ELSE "shortNoA", toLong)
    \/ \E mapper \in Mappers : MapFids(mapper, FALSE)
    \/ UpdateMasters

SpecMasters == InitMasters /\ [][NextMasters]_vars

\* The identifier fields of the record, in the order in which the set of
\* descriptors is walked.
FieldFidsOf(element) == IF element = "MelFid" THEN <<record.script>> ELSE record.spells
FieldFids == FieldFidsOf(formElements[1]) \o FieldFidsOf(formElements[2])

\* C30: mapFids with save=False leaves the whole record as it was (fid,
\* identifier fields, longFids, changed, data) and, when it returns, has
\* called the function once on each identifier field; updateMasters on a
\* record in long form does the same after one call on the record fid, and
\* on a record not in long form it raises without any call.
C30_UnsavedWalkLeavesRecord ==
    /\ [][op'.name = "mapFids" /\ ~op'.flag =>
            /\ record' = record
            /\ result'.status = "ok" => calls' = FieldFids]_vars
    /\ [][op'.name = "updateMasters" /\ record.longFids =>
            /\ record' = record
            /\ result'.status = "ok"
            /\ calls' = <<record.fid>> \o FieldFids]_vars
    /\ [][op'.name = "updateMasters" /\ ~record.longFids =>
            /\ record' = record
            /\ result'.status = "raised"
            /\ calls' = <<>>]_vars

\* C30: updateMasters has returned for a long record with a script and a
\* spell, after three calls of the function.
C30_Witness ==
    /\ op.name = "updateMasters" /\ result.status = "ok"
    /\ record.longFids /\ record.script # NoFid /\ record.spells # <<>>
    /\ Len(calls) = 3

====
